---- MODULE Spec2Model ----
(***************************************************************************)
(* State-machine model of the chess rules engine ChessGame                 *)
(* (src/src/game/chessGame.js): board, move generation with the            *)
(* make/unmake legality filter, castling, en passant, promotion, check,    *)
(* checkmate and stalemate detection, move history.                        *)
(*                                                                         *)
(* JavaScript null/undefined is modelled by a sentinel of the same shape   *)
(* as the value it stands for (NoPiece, NoCastle, NoTarget, NoLastMove,    *)
(* the string "null"), because TLC compares values of one shape only.      *)
(***************************************************************************)
EXTENDS Integers, Sequences, FiniteSets, TLC

VARIABLES
  board,            \* this.board: 64 slots, a piece record or NoPiece
  currentPlayer,    \* this.currentPlayer
  moveHistory,      \* this.moveHistory: sequence of history entries
  nextPieceId,      \* this.nextPieceId
  lastMove,         \* this.lastMove
  winner,           \* this.winner: "null", "white", "black" or "draw"
  enPassantTarget,  \* this.enPassantTarget
  result,           \* what the most recent move() call returned
  line,             \* the caller: which scripted game it replays
  step,             \* the caller: how many calls of the script it has made
  free,             \* the caller: how many calls outside the script it has made
  engine,           \* the StockfishEngine object: worker, readyPromise,
                    \* waiters, pendingBestMoveResolve/Reject
  calls,            \* the promises the adapter's async methods returned
  readyAwaiters,    \* the calls waiting on engine.readyPromise, in order
  microtasks,       \* continuations that are ready to run, in order
  toWorker,         \* commands posted to the worker, not yet read by it
  fromWorker,       \* lines the worker has written, not yet delivered
  apiCalls,         \* how many calls the adapter's client has made
  workerState,      \* the worker: "unloadable", "running" or "dead"
  app,              \* the App object: engine, engineReadyPromise, singlePlayer,
                    \* engineThinking, animationInProgress, selectedSquare,
                    \* legalMoves, currentPieceStates, activeAnimations, the
                    \* renderer's pieceRegistry, the square clicked last and
                    \* the number of clicks modulo 2
  appAwaiters,      \* the App's functions waiting on engineReadyPromise
  lastMessage       \* what onMessage delivered last

gameVars == <<board, currentPlayer, moveHistory, nextPieceId, lastMove, winner,
              enPassantTarget>>
adapterVars == <<engine, calls, readyAwaiters, microtasks, toWorker, fromWorker,
                 apiCalls, workerState>>
appVars == <<app, appAwaiters, lastMessage>>
vars == <<board, currentPlayer, moveHistory, nextPieceId, lastMove, winner,
          enPassantTarget, result, line, step, free, engine, calls,
          readyAwaiters, microtasks, toWorker, fromWorker, apiCalls,
          workerState, app, appAwaiters, lastMessage>>

----------------------------------------------------------------------------
(* Constants of chessGame.js *)

PAWN == "pawn"
KNIGHT == "knight"
BISHOP == "bishop"
ROOK == "rook"
QUEEN == "queen"
KING == "king"
WHITE == "white"
BLACK == "black"

PieceType == {PAWN, KNIGHT, BISHOP, ROOK, QUEEN, KING}
PieceColor == {WHITE, BLACK}

STARTING_BOARD ==
  << <<"r","n","b","q","k","b","n","r">>,
     <<"p","p","p","p","p","p","p","p">>,
     <<".",".",".",".",".",".",".",".">>,
     <<".",".",".",".",".",".",".",".">>,
     <<".",".",".",".",".",".",".",".">>,
     <<".",".",".",".",".",".",".",".">>,
     <<"P","P","P","P","P","P","P","P">>,
     <<"R","N","B","Q","K","B","N","R">> >>

toLowerCase(char) ==
  CASE char = "R" -> "r" [] char = "N" -> "n" [] char = "B" -> "b"
    [] char = "Q" -> "q" [] char = "K" -> "k" [] char = "P" -> "p"
    [] OTHER -> char

CHAR_TO_TYPE(lower) ==
  CASE lower = "p" -> PAWN [] lower = "n" -> KNIGHT [] lower = "b" -> BISHOP
    [] lower = "r" -> ROOK [] lower = "q" -> QUEEN [] lower = "k" -> KING

PIECE_TO_LETTER(type) ==
  CASE type = PAWN -> "P" [] type = KNIGHT -> "N" [] type = BISHOP -> "B"
    [] type = ROOK -> "R" [] type = QUEEN -> "Q" [] type = KING -> "K"

FILES == <<"a","b","c","d","e","f","g","h">>

Squares == 0..63

NoPiece == [type |-> "null", color |-> "null", hasMoved |-> FALSE, id |-> 0]
NoCastle == [side |-> "null", rookFrom |-> -1, rookTo |-> -1]
NoTarget == [index |-> -1, captureColor |-> "null"]
NoRook == [from |-> -1, to |-> -1]
NoLastMove == [from |-> -1, to |-> -1, rook |-> NoRook]

indexToCoord(index) == [row |-> index \div 8, col |-> index % 8]

coordToIndex(row, col) == row * 8 + col

isOnBoard(row, col) == row >= 0 /\ row < 8 /\ col >= 0 /\ col < 8

Digits == <<"1","2","3","4","5","6","7","8">>

\* `${FILES[col]}${8 - row}`: the file letter followed by the rank digit
squareName(index) ==
  LET c == indexToCoord(index) IN <<FILES[c.col + 1], Digits[8 - c.row]>>

capitalize(value) ==
  CASE value = WHITE -> "White" [] value = BLACK -> "Black"

Opponent(color) == IF color = WHITE THEN BLACK ELSE WHITE

----------------------------------------------------------------------------
(* reset(): the standard placement, ids in row-major order *)

StartChar(index) == STARTING_BOARD[(index \div 8) + 1][(index % 8) + 1]

ResetBoard ==
  [index \in Squares |->
     LET char == StartChar(index)
         lower == toLowerCase(char)
     IN IF char = "." THEN NoPiece
        ELSE [type |-> CHAR_TO_TYPE(lower),
              color |-> IF char = lower THEN BLACK ELSE WHITE,
              hasMoved |-> FALSE,
              id |-> Cardinality({j \in 0..index : StartChar(j) # "."})]]

ResetNextPieceId == 1 + Cardinality({j \in Squares : StartChar(j) # "."})

----------------------------------------------------------------------------
(* Move candidates and attack detection *)

Candidate(from, to, promotion, castle, enPassant, enPassantCapture) ==
  [from |-> from, to |-> to, promotion |-> promotion, castle |-> castle,
   enPassant |-> enPassant, enPassantCapture |-> enPassantCapture]

PlainMove(from, to) == Candidate(from, to, "null", NoCastle, FALSE, -1)

NoMove == Candidate(-1, -1, "null", NoCastle, FALSE, -1)

KnightOffsets ==
  << <<-2,-1>>, <<-2,1>>, <<-1,-2>>, <<-1,2>>, <<1,-2>>, <<1,2>>, <<2,-1>>, <<2,1>> >>

KingOffsets ==
  << <<-1,-1>>, <<-1,0>>, <<-1,1>>, <<0,-1>>, <<0,1>>, <<1,-1>>, <<1,0>>, <<1,1>> >>

DiagonalDirs == << <<1,1>>, <<1,-1>>, <<-1,1>>, <<-1,-1>> >>

OrthDirs == << <<1,0>>, <<-1,0>>, <<0,1>>, <<0,-1>> >>

QueenDirs == OrthDirs \o DiagonalDirs

\* faulty variant: a ray ends after its first square
RayAttackedOneStep(b, nr, nc, dr, dc, attackerColor, types) ==
  /\ isOnBoard(nr, nc)
  /\ b[coordToIndex(nr, nc)] # NoPiece
  /\ b[coordToIndex(nr, nc)].color = attackerColor
  /\ b[coordToIndex(nr, nc)].type \in types

\* the while loop of one ray: the first piece met decides
RECURSIVE RayAttacked(_, _, _, _, _, _, _)
RayAttacked(b, nr, nc, dr, dc, attackerColor, types) ==
  IF ~isOnBoard(nr, nc) THEN FALSE
  ELSE LET piece == b[coordToIndex(nr, nc)] IN
       IF piece # NoPiece
       THEN piece.color = attackerColor /\ piece.type \in types
       ELSE RayAttacked(b, nr + dr, nc + dc, dr, dc, attackerColor, types)

\* one fixed-offset square holds an attacker of the given type
OffsetAttacked(b, nr, nc, attackerColor, type) ==
  /\ isOnBoard(nr, nc)
  /\ LET piece == b[coordToIndex(nr, nc)] IN
       piece # NoPiece /\ piece.color = attackerColor /\ piece.type = type

isSquareAttacked(b, index, attackerColor) ==
  LET row == indexToCoord(index).row
      col == indexToCoord(index).col
      pawnRow == row + (IF attackerColor = WHITE THEN 1 ELSE -1)
  IN \/ \E offset \in {-1, 1} :
          OffsetAttacked(b, pawnRow, col + offset, attackerColor, PAWN)
     \/ \E i \in 1..Len(KnightOffsets) :
          OffsetAttacked(b, row + KnightOffsets[i][1], col + KnightOffsets[i][2],
                         attackerColor, KNIGHT)
     \/ \E i \in 1..Len(DiagonalDirs) :
          RayAttacked(b, row + DiagonalDirs[i][1], col + DiagonalDirs[i][2],
                      DiagonalDirs[i][1], DiagonalDirs[i][2], attackerColor,
                      {BISHOP, QUEEN})
     \/ \E i \in 1..Len(OrthDirs) :
          RayAttacked(b, row + OrthDirs[i][1], col + OrthDirs[i][2],
                      OrthDirs[i][1], OrthDirs[i][2], attackerColor,
                      {ROOK, QUEEN})
     \/ \E i \in 1..Len(KingOffsets) :
          OffsetAttacked(b, row + KingOffsets[i][1], col + KingOffsets[i][2],
                         attackerColor, KING)

\* Array.prototype.findIndex: the lowest index holding that king, -1 if none
KingIndex(b, color) ==
  LET kings == {i \in Squares : b[i] # NoPiece /\ b[i].type = KING /\ b[i].color = color}
  IN IF kings = {} THEN -1
     ELSE CHOOSE i \in kings : \A j \in kings : i <= j

isKingInCheck(b, color) ==
  LET kingIndex == KingIndex(b, color) IN
  IF kingIndex = -1 THEN FALSE
  ELSE isSquareAttacked(b, kingIndex, Opponent(color))

----------------------------------------------------------------------------
(* Pseudo-legal move generation *)

PromotionFor(targetRow) == IF targetRow = 0 \/ targetRow = 7 THEN QUEEN ELSE "null"

\* faulty variant: the en-passant victim is looked for on the destination square
PawnCaptureOnTarget(b, ept, index, piece, row, col, direction, offset) ==
  LET targetCol == col + offset
      targetRow == row + direction
      targetIndex == coordToIndex(targetRow, targetCol)
      captureIndex == coordToIndex(row, targetCol)
  IN IF ~isOnBoard(targetRow, targetCol) THEN <<>>
     ELSE IF b[targetIndex] # NoPiece /\ b[targetIndex].color # piece.color
     THEN <<Candidate(index, targetIndex, PromotionFor(targetRow), NoCastle, FALSE, -1)>>
     ELSE IF /\ ept # NoTarget
             /\ ept.captureColor = piece.color
             /\ ept.index = targetIndex
             /\ b[captureIndex] # NoPiece
             /\ b[captureIndex].color # piece.color
             /\ b[captureIndex].type = PAWN
     THEN <<Candidate(index, targetIndex, "null", NoCastle, TRUE, targetIndex)>>
     ELSE <<>>

PawnCapture(b, ept, index, piece, row, col, direction, offset) ==
  LET targetCol == col + offset
      targetRow == row + direction
      targetIndex == coordToIndex(targetRow, targetCol)
      captureIndex == coordToIndex(row, targetCol)
  IN IF ~isOnBoard(targetRow, targetCol) THEN <<>>
     ELSE IF b[targetIndex] # NoPiece /\ b[targetIndex].color # piece.color
     THEN <<Candidate(index, targetIndex, PromotionFor(targetRow), NoCastle, FALSE, -1)>>
     ELSE IF /\ ept # NoTarget
             /\ ept.captureColor = piece.color
             /\ ept.index = targetIndex
             /\ b[captureIndex] # NoPiece
             /\ b[captureIndex].color # piece.color
             /\ b[captureIndex].type = PAWN
     THEN <<Candidate(index, targetIndex, "null", NoCastle, TRUE, captureIndex)>>
     ELSE <<>>

\* faulty variant: a push to the last row is offered as a queen and as a knight
PawnMovesUnderpromoting(b, ept, index, piece, row, col) ==
  LET direction == IF piece.color = WHITE THEN -1 ELSE 1
      startRow == IF piece.color = WHITE THEN 6 ELSE 1
      forwardRow == row + direction
      twoRow == row + direction * 2
      pushes ==
        IF isOnBoard(forwardRow, col) /\ b[coordToIndex(forwardRow, col)] = NoPiece
        THEN <<Candidate(index, coordToIndex(forwardRow, col), PromotionFor(forwardRow),
                    NoCastle, FALSE, -1)>>
             \o (IF PromotionFor(forwardRow) # "null"
                 THEN <<Candidate(index, coordToIndex(forwardRow, col), KNIGHT,
                                  NoCastle, FALSE, -1)>>
                 ELSE <<>>)
             \o (IF /\ row = startRow
                    /\ isOnBoard(twoRow, col)
                    /\ b[coordToIndex(twoRow, col)] = NoPiece
                 THEN <<PlainMove(index, coordToIndex(twoRow, col))>>
                 ELSE <<>>)
        ELSE <<>>
  IN pushes \o PawnCapture(b, ept, index, piece, row, col, direction, -1)
            \o PawnCapture(b, ept, index, piece, row, col, direction, 1)

PawnMoves(b, ept, index, piece, row, col) ==
  LET direction == IF piece.color = WHITE THEN -1 ELSE 1
      startRow == IF piece.color = WHITE THEN 6 ELSE 1
      forwardRow == row + direction
      twoRow == row + direction * 2
      pushes ==
        IF isOnBoard(forwardRow, col) /\ b[coordToIndex(forwardRow, col)] = NoPiece
        THEN <<Candidate(index, coordToIndex(forwardRow, col), PromotionFor(forwardRow),
                    NoCastle, FALSE, -1)>>
             \o (IF /\ row = startRow
                    /\ isOnBoard(twoRow, col)
                    /\ b[coordToIndex(twoRow, col)] = NoPiece
                 THEN <<PlainMove(index, coordToIndex(twoRow, col))>>
                 ELSE <<>>)
        ELSE <<>>
  IN pushes \o PawnCapture(b, ept, index, piece, row, col, direction, -1)
            \o PawnCapture(b, ept, index, piece, row, col, direction, 1)

\* faulty variant: a step may land on a piece of its own side
RECURSIVE StepMovesOntoOwn(_, _, _, _, _, _, _)
StepMovesOntoOwn(b, index, piece, row, col, offsets, i) ==
  IF i > Len(offsets) THEN <<>>
  ELSE IF ~isOnBoard(row + offsets[i][1], col + offsets[i][2])
  THEN StepMovesOntoOwn(b, index, piece, row, col, offsets, i + 1)
  ELSE <<PlainMove(index, coordToIndex(row + offsets[i][1], col + offsets[i][2]))>>
       \o StepMovesOntoOwn(b, index, piece, row, col, offsets, i + 1)

\* knight and king steps: the offsets in order, kept when on the board and the
\* target is empty or an enemy
RECURSIVE StepMoves(_, _, _, _, _, _, _)
StepMoves(b, index, piece, row, col, offsets, i) ==
  IF i > Len(offsets) THEN <<>>
  ELSE LET nr == row + offsets[i][1]
           nc == col + offsets[i][2]
           rest == StepMoves(b, index, piece, row, col, offsets, i + 1)
       IN IF ~isOnBoard(nr, nc) THEN rest
          ELSE IF b[coordToIndex(nr, nc)] = NoPiece
                  \/ b[coordToIndex(nr, nc)].color # piece.color
          THEN <<PlainMove(index, coordToIndex(nr, nc))>> \o rest
          ELSE rest

\* the while loop of generateSlidingMoves for one direction
RECURSIVE SlideRay(_, _, _, _, _, _, _)
SlideRay(b, index, piece, nr, nc, dr, dc) ==
  IF ~isOnBoard(nr, nc) THEN <<>>
  ELSE LET targetIndex == coordToIndex(nr, nc)
           targetPiece == b[targetIndex]
       IN IF targetPiece = NoPiece
          THEN <<PlainMove(index, targetIndex)>>
               \o SlideRay(b, index, piece, nr + dr, nc + dc, dr, dc)
          ELSE IF targetPiece.color # piece.color
          THEN <<PlainMove(index, targetIndex)>>
          ELSE <<>>

RECURSIVE generateSlidingMoves(_, _, _, _, _, _, _)
generateSlidingMoves(b, index, piece, row, col, directions, i) ==
  IF i > Len(directions) THEN <<>>
  ELSE SlideRay(b, index, piece, row + directions[i][1], col + directions[i][2],
                directions[i][1], directions[i][2])
       \o generateSlidingMoves(b, index, piece, row, col, directions, i + 1)

CastleOptions(col) ==
  << [side |-> "king", rookCol |-> 7, path |-> <<col + 1, col + 2>>,
      kingPath |-> <<col + 1, col + 2>>, finalCol |-> col + 2,
      rookTargetCol |-> col + 1],
     [side |-> "queen", rookCol |-> 0, path |-> <<col - 1, col - 2, col - 3>>,
      kingPath |-> <<col - 1, col - 2>>, finalCol |-> col - 2,
      rookTargetCol |-> col - 1] >>

CastleOption(b, index, piece, row, option) ==
  LET rookIndex == coordToIndex(row, option.rookCol)
      rook == b[rookIndex]
      opponentColor == Opponent(piece.color)
      pathClear == \A k \in 1..Len(option.path) :
                     /\ isOnBoard(row, option.path[k])
                     /\ b[coordToIndex(row, option.path[k])] = NoPiece
      safe == \A k \in 1..Len(option.kingPath) :
                /\ isOnBoard(row, option.kingPath[k])
                /\ ~isSquareAttacked(b, coordToIndex(row, option.kingPath[k]),
                                     opponentColor)
  IN IF option.finalCol < 0 \/ option.finalCol > 7 THEN <<>>
     ELSE IF rook = NoPiece \/ rook.type # ROOK \/ rook.color # piece.color
             \/ rook.hasMoved
     THEN <<>>
     ELSE IF ~pathClear THEN <<>>
     ELSE IF ~safe THEN <<>>
     ELSE <<Candidate(index, coordToIndex(row, option.finalCol), "null",
                 [side |-> option.side, rookFrom |-> rookIndex,
                  rookTo |-> coordToIndex(row, option.rookTargetCol)],
                 FALSE, -1)>>

\* faulty variant: castling is offered to a king that stands in check
generateCastlingMovesInCheck(b, index, piece, row, col) ==
  IF piece.hasMoved THEN <<>>
  ELSE CastleOption(b, index, piece, row, CastleOptions(col)[1])
       \o CastleOption(b, index, piece, row, CastleOptions(col)[2])

\* faulty variant: castling is offered to a king that has moved
generateCastlingMovesToMovedKing(b, index, piece, row, col) ==
  IF isSquareAttacked(b, index, Opponent(piece.color)) THEN <<>>
  ELSE CastleOption(b, index, piece, row, CastleOptions(col)[1])
       \o CastleOption(b, index, piece, row, CastleOptions(col)[2])

generateCastlingMoves(b, index, piece, row, col) ==
  IF piece.hasMoved THEN <<>>
  ELSE IF isSquareAttacked(b, index, Opponent(piece.color)) THEN <<>>
  ELSE CastleOption(b, index, piece, row, CastleOptions(col)[1])
       \o CastleOption(b, index, piece, row, CastleOptions(col)[2])

generatePseudoMoves(b, ept, index, piece) ==
  LET row == indexToCoord(index).row
      col == indexToCoord(index).col
  IN CASE piece.type = PAWN -> PawnMoves(b, ept, index, piece, row, col)
       [] piece.type = KNIGHT -> StepMoves(b, index, piece, row, col, KnightOffsets, 1)
       [] piece.type = BISHOP ->
            generateSlidingMoves(b, index, piece, row, col, DiagonalDirs, 1)
       [] piece.type = ROOK ->
            generateSlidingMoves(b, index, piece, row, col, OrthDirs, 1)
       [] piece.type = QUEEN ->
            generateSlidingMoves(b, index, piece, row, col, QueenDirs, 1)
       [] piece.type = KING ->
            StepMoves(b, index, piece, row, col, KingOffsets, 1)
            \o generateCastlingMoves(b, index, piece, row, col)
       [] OTHER -> <<>>

----------------------------------------------------------------------------
(* applyMove / undoMove: the make/unmake pair.  A piece object is shared by  *)
(* the board slot and the undo record; the record's piece fields hold the    *)
(* object as applyMove left it.  An intermediate value that is used more     *)
(* than once is handed on as an operator parameter.                          *)

NoRookMove == [piece |-> NoPiece, from |-> -1, to |-> -1, originalHasMoved |-> FALSE]

\* applyMove with board[fromIndex] empty throws 'No piece to move'
applyMoveThrows(b, fromIndex) == b[fromIndex] = NoPiece

\* faulty variant: the source square keeps the piece
applyStartKeepsSource(b, fromIndex, move) ==
  [board |-> b,
   moveState |->
     [piece |-> b[fromIndex], from |-> fromIndex, to |-> move.to,
      captured |-> NoPiece, enPassantCaptured |-> NoPiece,
      enPassantCaptureIndex |-> IF move.enPassant THEN move.enPassantCapture ELSE -1,
      promotion |-> move.promotion, originalType |-> b[fromIndex].type,
      originalHasMoved |-> b[fromIndex].hasMoved, rookMove |-> NoRookMove]]

\* lines 251-269: the undo record, and the source square emptied
applyStart(b, fromIndex, move) ==
  [board |-> [b EXCEPT ![fromIndex] = NoPiece],
   moveState |->
     [piece |-> b[fromIndex], from |-> fromIndex, to |-> move.to,
      captured |-> NoPiece, enPassantCaptured |-> NoPiece,
      enPassantCaptureIndex |-> IF move.enPassant THEN move.enPassantCapture ELSE -1,
      promotion |-> move.promotion, originalType |-> b[fromIndex].type,
      originalHasMoved |-> b[fromIndex].hasMoved, rookMove |-> NoRookMove]]

\* faulty variant: the castling rook is moved but not marked as moved
applyCastleRookUnmarked(a, move) ==
  IF move.castle = NoCastle THEN a
  ELSE IF a.board[move.castle.rookFrom] = NoPiece
  THEN [a EXCEPT !.moveState.rookMove =
                    [piece |-> NoPiece, from |-> move.castle.rookFrom,
                     to |-> move.castle.rookTo, originalHasMoved |-> FALSE]]
  ELSE [board |-> [a.board EXCEPT
                     ![move.castle.rookFrom] = NoPiece,
                     ![move.castle.rookTo] = a.board[move.castle.rookFrom]],
        moveState |->
          [a.moveState EXCEPT !.rookMove =
             [piece |-> a.board[move.castle.rookFrom],
              from |-> move.castle.rookFrom, to |-> move.castle.rookTo,
              originalHasMoved |-> a.board[move.castle.rookFrom].hasMoved]]]

\* lines 271-284: the rook of a castle
applyCastle(a, move) ==
  IF move.castle = NoCastle THEN a
  ELSE IF a.board[move.castle.rookFrom] = NoPiece
  THEN [a EXCEPT !.moveState.rookMove =
                    [piece |-> NoPiece, from |-> move.castle.rookFrom,
                     to |-> move.castle.rookTo, originalHasMoved |-> FALSE]]
  ELSE [board |-> [a.board EXCEPT
                     ![move.castle.rookFrom] = NoPiece,
                     ![move.castle.rookTo] =
                        [a.board[move.castle.rookFrom] EXCEPT !.hasMoved = TRUE]],
        moveState |->
          [a.moveState EXCEPT !.rookMove =
             [piece |-> [a.board[move.castle.rookFrom] EXCEPT !.hasMoved = TRUE],
              from |-> move.castle.rookFrom, to |-> move.castle.rookTo,
              originalHasMoved |-> a.board[move.castle.rookFrom].hasMoved]]]

\* lines 286-293: the captured piece, taken off its square when en passant
applyCapture(a, move) ==
  IF move.enPassant
  THEN [board |-> IF a.moveState.enPassantCaptureIndex # -1
                  THEN [a.board EXCEPT ![a.moveState.enPassantCaptureIndex] = NoPiece]
                  ELSE a.board,
        moveState |-> [a.moveState EXCEPT
                         !.enPassantCaptured = a.board[move.enPassantCapture]]]
  ELSE [a EXCEPT !.moveState.captured = a.board[move.to]]

\* the moved piece object after lines 296-299
MovedPiece(piece, move) ==
  [piece EXCEPT !.hasMoved = TRUE,
                !.type = IF move.promotion # "null" THEN move.promotion ELSE @]

\* lines 295-299: the piece put down, marked and promoted
applyPlace(a, move) ==
  [board |-> [a.board EXCEPT ![move.to] = MovedPiece(a.moveState.piece, move)],
   moveState |-> [a.moveState EXCEPT !.piece = MovedPiece(a.moveState.piece, move)]]

applyMove(b, fromIndex, move) ==
  applyPlace(applyCapture(applyCastle(applyStart(b, fromIndex, move), move), move), move)

\* faulty variant: the undo leaves the piece marked as moved
undoPieceKeepsMoved(b, moveState) ==
  [b EXCEPT ![moveState.to] = moveState.captured,
            ![moveState.from] =
               [moveState.piece EXCEPT
                  !.type = IF moveState.promotion # "null"
                           THEN moveState.originalType ELSE @]]

\* lines 305-311
undoPiece(b, moveState) ==
  [b EXCEPT ![moveState.to] = moveState.captured,
            ![moveState.from] =
               [moveState.piece EXCEPT
                  !.hasMoved = moveState.originalHasMoved,
                  !.type = IF moveState.promotion # "null"
                           THEN moveState.originalType ELSE @]]

\* faulty variant: the pawn captured en passant is not put back
undoEnPassantForgotten(b, moveState) == b

\* lines 313-315
undoEnPassant(b, moveState) ==
  IF moveState.enPassantCaptured # NoPiece /\ moveState.enPassantCaptureIndex # -1
  THEN [b EXCEPT ![moveState.enPassantCaptureIndex] = moveState.enPassantCaptured]
  ELSE b

\* lines 317-321
undoRook(b, moveState) ==
  IF moveState.rookMove # NoRookMove /\ moveState.rookMove.piece # NoPiece
  THEN [b EXCEPT ![moveState.rookMove.to] = NoPiece,
                 ![moveState.rookMove.from] =
                    [moveState.rookMove.piece EXCEPT
                       !.hasMoved = moveState.rookMove.originalHasMoved]]
  ELSE b

undoMove(b, moveState) ==
  undoRook(undoEnPassant(undoPiece(b, moveState), moveState), moveState)

\* faulty variant: the legality filter lets every pseudo-legal move through
CheckAndUndoUnfiltered(applied, color) ==
  [inCheck |-> FALSE, board |-> undoMove(applied.board, applied.moveState)]

\* lines 245-247 on the applied move: the verdict, and the board the undo leaves
CheckAndUndo(applied, color) ==
  [inCheck |-> isKingInCheck(applied.board, color),
   board |-> undoMove(applied.board, applied.moveState)]

moveLeavesKingInCheck(b, color, fromIndex, move) ==
  CheckAndUndo(applyMove(b, fromIndex, move), color)

\* the for loop of generateLegalMoves over the pseudo moves, on the live board;
\* LegalStep is one iteration's use of moveLeavesKingInCheck's outcome
RECURSIVE LegalLoop(_, _, _, _, _, _)
RECURSIVE LegalStep(_, _, _, _, _, _)
LegalStep(color, index, pseudoMoves, i, legal, outcome) ==
  LegalLoop(outcome.board, color, index, pseudoMoves, i + 1,
            IF outcome.inCheck THEN legal ELSE Append(legal, pseudoMoves[i]))

LegalLoop(b, color, index, pseudoMoves, i, legal) ==
  IF i > Len(pseudoMoves) THEN [legal |-> legal, board |-> b, threw |-> FALSE]
  ELSE IF applyMoveThrows(b, index) THEN [legal |-> legal, board |-> b, threw |-> TRUE]
  ELSE LegalStep(color, index, pseudoMoves, i, legal,
                 moveLeavesKingInCheck(b, color, index, pseudoMoves[i]))

generateLegalMoves(b, ept, index, piece, color) ==
  LegalLoop(b, color, index, generatePseudoMoves(b, ept, index, piece), 1, <<>>)

\* the for loop of hasAnyLegalMoves, with its early return; AnyStep is one
\* iteration's use of generateLegalMoves' outcome
RECURSIVE hasAnyLegalMoves(_, _, _, _)
RECURSIVE AnyStep(_, _, _, _)
AnyStep(ept, color, index, moves) ==
  IF moves.threw THEN [any |-> FALSE, board |-> moves.board, threw |-> TRUE]
  ELSE IF Len(moves.legal) > 0
  THEN [any |-> TRUE, board |-> moves.board, threw |-> FALSE]
  ELSE hasAnyLegalMoves(moves.board, ept, color, index + 1)

hasAnyLegalMoves(b, ept, color, index) ==
  IF index >= 64 THEN [any |-> FALSE, board |-> b, threw |-> FALSE]
  ELSE IF b[index] = NoPiece \/ b[index].color # color
  THEN hasAnyLegalMoves(b, ept, color, index + 1)
  ELSE AnyStep(ept, color, index,
               generateLegalMoves(b, ept, index, b[index], color))

\* faulty variant: a move of another piece leaves the en-passant target standing
updateEnPassantStateStale(originalType, from, to, color, move) ==
  IF originalType # PAWN THEN enPassantTarget
  ELSE IF (to.row - from.row # 2 /\ to.row - from.row # -2) \/ move.enPassant
  THEN NoTarget
  ELSE [index |-> coordToIndex((from.row + to.row) \div 2, from.col),
        captureColor |-> Opponent(color)]

\* faulty variant: the target is offered to the side that made the double step
updateEnPassantStateOwnSide(originalType, from, to, color, move) ==
  IF originalType # PAWN THEN NoTarget
  ELSE IF (to.row - from.row # 2 /\ to.row - from.row # -2) \/ move.enPassant
  THEN NoTarget
  ELSE [index |-> coordToIndex((from.row + to.row) \div 2, from.col),
        captureColor |-> color]

updateEnPassantState(originalType, from, to, color, move) ==
  IF originalType # PAWN THEN NoTarget
  ELSE IF (to.row - from.row # 2 /\ to.row - from.row # -2) \/ move.enPassant
  THEN NoTarget
  ELSE [index |-> coordToIndex((from.row + to.row) \div 2, from.col),
        captureColor |-> Opponent(color)]

Suffix(check, checkmate, stalemate) ==
  IF checkmate THEN " #" ELSE IF check THEN " +" ELSE IF stalemate THEN " =" ELSE ""

\* the template string, as the sequence of the pieces it concatenates
createHistoryEntry(pieceType, color, fromIndex, toIndex, captured, promotion, check, checkmate, stalemate, castle, enPassant) ==
  IF castle # "null"
  THEN <<capitalize(color), ": ", IF castle = "king" THEN "O-O" ELSE "O-O-O",
         Suffix(check, checkmate, stalemate)>>
  ELSE <<capitalize(color), ": ", PIECE_TO_LETTER(pieceType)>>
       \o squareName(fromIndex)
       \o <<" ", IF captured # NoPiece THEN "x" ELSE "->", " ">>  \* "->" is U+2192
       \o squareName(toIndex)
       \o <<IF promotion # "null" THEN "=" ELSE "",
            IF promotion # "null" THEN PIECE_TO_LETTER(promotion) ELSE "",
            IF enPassant THEN " (e.p.)" ELSE "",
            Suffix(check, checkmate, stalemate)>>

\* Array.prototype.find: the first legal move with that destination
FindTarget(legalMoves, toIndex) ==
  IF \A i \in 1..Len(legalMoves) : legalMoves[i].to # toIndex THEN NoMove
  ELSE legalMoves[CHOOSE i \in 1..Len(legalMoves) :
                    /\ legalMoves[i].to = toIndex
                    /\ \A j \in 1..(i - 1) : legalMoves[j].to # toIndex]

----------------------------------------------------------------------------
(* The public operations *)

FailResult(message) ==
  [success |-> FALSE, message |-> message, captured |-> NoPiece, check |-> "null",
   checkmate |-> FALSE, stalemate |-> FALSE, historyEntry |-> <<>>,
   winner |-> "null", castle |-> NoCastle, enPassant |-> FALSE]

\* no move() call has returned yet
NoResult == FailResult("null")

\* an exception left move(): applyMove found no piece on the source square
ThrowResult == FailResult("Error: No piece to move")

\* generateLegalMoves for the piece on fromIndex, as move() and getLegalMoves()
\* call it; an empty outcome where they return before calling it
LegalMovesFrom(fromIndex) ==
  IF board[fromIndex] = NoPiece
  THEN [legal |-> <<>>, board |-> board, threw |-> FALSE]
  ELSE generateLegalMoves(board, enPassantTarget, fromIndex, board[fromIndex],
                          board[fromIndex].color)

getLegalMoves(index) ==
  IF winner # "null" THEN <<>>
  ELSE IF board[index] = NoPiece \/ board[index].color # currentPlayer THEN <<>>
  ELSE LegalMovesFrom(index).legal

\* faulty variant: the caller's promotion piece replaces the generator's queen
SelectMoveAsAsked(legalMoves, toIndex, promotion) ==
  IF FindTarget(legalMoves, toIndex) # NoMove
     /\ FindTarget(legalMoves, toIndex).promotion # "null" /\ promotion # "null"
  THEN [FindTarget(legalMoves, toIndex) EXCEPT !.promotion = promotion]
  ELSE FindTarget(legalMoves, toIndex)

\* legalMoves.find((move) => move.to === toIndex): move() declares two
\* parameters, so a third argument (the engine path passes a promotion piece)
\* is dropped
SelectMove(legalMoves, toIndex, promotion) == FindTarget(legalMoves, toIndex)

\* moveState.captured ?? moveState.enPassantCaptured ?? null
CapturedPiece(moveState) ==
  IF moveState.captured # NoPiece THEN moveState.captured
  ELSE moveState.enPassantCaptured

\* faulty variant: a side left without moves always loses
WinnerAfterNoStalemate(opponentHasMoves, opponentInCheck, color, previous) ==
  IF ~opponentHasMoves THEN color ELSE previous

\* lines 172-182: the winner after a move by color
WinnerAfter(opponentHasMoves, opponentInCheck, color, previous) ==
  IF ~opponentHasMoves
  THEN IF opponentInCheck THEN color ELSE "draw"
  ELSE previous

\* faulty variant: unshift instead of push
PushHistoryFront(history, historyEntry) == <<historyEntry>> \o history

\* this.moveHistory.push(historyEntry)
PushHistory(history, historyEntry) == Append(history, historyEntry)

LastMoveRecord(fromIndex, toIndex, targetMove) ==
  [from |-> fromIndex, to |-> toIndex,
   rook |-> IF targetMove.castle # NoCastle
            THEN [from |-> targetMove.castle.rookFrom,
                  to |-> targetMove.castle.rookTo]
            ELSE NoRook]

\* this.currentPlayer = opponent
NextPlayer(color) == Opponent(color)

\* lines 184-217: the history entry is built, the state and the result written
moveRecord(fromIndex, toIndex, piece, targetMove, capturedPiece, opponentInCheck, checkmate, stalemate, historyEntry) ==
  /\ winner' = WinnerAfter(~(checkmate \/ stalemate), opponentInCheck, piece.color,
                           winner)
  /\ moveHistory' = PushHistory(moveHistory, historyEntry)
  /\ lastMove' = LastMoveRecord(fromIndex, toIndex, targetMove)
  /\ currentPlayer' = NextPlayer(piece.color)
  /\ nextPieceId' = nextPieceId
  /\ result' = [success |-> TRUE, message |-> "null",
                captured |-> capturedPiece,
                check |-> IF opponentInCheck THEN Opponent(piece.color) ELSE "null",
                checkmate |-> checkmate, stalemate |-> stalemate,
                historyEntry |-> historyEntry,
                winner |-> WinnerAfter(~(checkmate \/ stalemate), opponentInCheck,
                                       piece.color, winner),
                castle |-> targetMove.castle,
                enPassant |-> targetMove.enPassant]

\* lines 168-183: the opponent's situation decides check, mate and stalemate
moveJudge(fromIndex, toIndex, piece, targetMove, capturedPiece, target, opponentInCheck, opponentHasMoves) ==
  IF opponentHasMoves.threw
  THEN /\ result' = ThrowResult
       /\ board' = opponentHasMoves.board
       /\ enPassantTarget' = target
       /\ UNCHANGED <<currentPlayer, moveHistory, nextPieceId, lastMove, winner>>
  ELSE /\ board' = opponentHasMoves.board
       /\ enPassantTarget' = target
       /\ moveRecord(fromIndex, toIndex, piece, targetMove, capturedPiece,
                     opponentInCheck,
                     ~opponentHasMoves.any /\ opponentInCheck,
                     ~opponentHasMoves.any /\ ~opponentInCheck,
                     createHistoryEntry(piece.type, piece.color, fromIndex, toIndex,
                                        capturedPiece, targetMove.promotion,
                                        opponentInCheck,
                                        ~opponentHasMoves.any /\ opponentInCheck,
                                        ~opponentHasMoves.any /\ ~opponentInCheck,
                                        targetMove.castle.side, targetMove.enPassant))

\* lines 157-170 once the move is applied: piece is the piece as it was before
moveApplied(fromIndex, toIndex, piece, targetMove, applied, target) ==
  moveJudge(fromIndex, toIndex, piece, targetMove,
            CapturedPiece(applied.moveState), target,
            isKingInCheck(applied.board, Opponent(piece.color)),
            hasAnyLegalMoves(applied.board, target, Opponent(piece.color), 0))

\* lines 149-166 once the target move is looked up
moveSelected(fromIndex, toIndex, generated, targetMove) ==
  IF targetMove = NoMove
  THEN /\ result' = FailResult("Illegal move")
       /\ board' = generated.board
       /\ UNCHANGED <<currentPlayer, moveHistory, nextPieceId, lastMove, winner,
                      enPassantTarget>>
  ELSE moveApplied(fromIndex, toIndex, board[fromIndex], targetMove,
                   applyMove(generated.board, fromIndex, targetMove),
                   updateEnPassantState(board[fromIndex].type,
                                        indexToCoord(fromIndex), indexToCoord(toIndex),
                                        board[fromIndex].color, targetMove))

\* move() from line 143 on, the game not being over
moveInPlay(fromIndex, toIndex, promotion, generated) ==
  IF board[fromIndex] = NoPiece \/ board[fromIndex].color # currentPlayer
  THEN result' = FailResult("Select a valid piece") /\ UNCHANGED gameVars
  ELSE IF generated.threw
  THEN /\ result' = ThrowResult
       /\ board' = generated.board
       /\ UNCHANGED <<currentPlayer, moveHistory, nextPieceId, lastMove, winner,
                      enPassantTarget>>
  ELSE moveSelected(fromIndex, toIndex, generated,
                    SelectMove(generated.legal, toIndex, promotion))

\* faulty variant: move() without the winner guard of lines 140-142
moveUnlocked(fromIndex, toIndex, promotion, generated) ==
  moveInPlay(fromIndex, toIndex, promotion, generated)

\* move(fromIndex, toIndex): generated is generateLegalMoves' outcome for
\* fromIndex (LegalMovesFrom), computed once per source square
move(fromIndex, toIndex, promotion, generated) ==
  IF winner # "null"
  THEN result' = FailResult("Game over") /\ UNCHANGED gameVars
  ELSE moveInPlay(fromIndex, toIndex, promotion, generated)

\* faulty variant: reset() forgets the en-passant target
resetKeepsTarget ==
  /\ board' = ResetBoard
  /\ nextPieceId' = ResetNextPieceId
  /\ currentPlayer' = WHITE
  /\ moveHistory' = <<>>
  /\ lastMove' = NoLastMove
  /\ winner' = "null"
  /\ enPassantTarget' = enPassantTarget

reset ==
  /\ board' = ResetBoard
  /\ nextPieceId' = ResetNextPieceId
  /\ currentPlayer' = WHITE
  /\ moveHistory' = <<>>
  /\ lastMove' = NoLastMove
  /\ winner' = "null"
  /\ enPassantTarget' = NoTarget

-----------------------------------------------------------------------------
(* stockfishEngine.js: the adapter between the application and the engine    *)
(* worker.  The adapter's methods are written as functions from a world (the *)
(* adapter object, the promises its methods returned, the continuations      *)
(* that wait, the commands posted) to the world after the method's           *)
(* synchronous part; what follows an await is a continuation that runs as a  *)
(* microtask once the awaited promise is settled.  A line is the sequence of *)
(* its space-separated parts, a command likewise.                            *)

MaxCalls == 3

NoCall == 0

\* the owner of the continuations of the function that makes readyPromise
InitializeBody == 0

CallIds == 1..MaxCalls

NewEngine ==
  [ worker |-> FALSE, waiters |-> <<>>, pendingBestMoveResolve |-> NoCall,
    pendingBestMoveReject |-> NoCall, readyPromise |-> "null" ]

\* a string is the sequence of its characters; null and undefined are the
\* string without characters where a string is expected
NoValue == <<>>

NoFen == <<>>

NoError == "none"

NoPromise ==
  [ method |-> "none", at |-> "none", fen |-> NoFen, state |-> "none",
    value |-> NoValue, error |-> NoError, settled |-> 0, awaiter |-> "none" ]

NewPromise(method, fen, awaiter) ==
  [ method |-> method, at |-> "initialize", fen |-> fen, state |-> "pending",
    value |-> NoValue, error |-> NoError, settled |-> 0, awaiter |-> awaiter ]

World ==
  [ engine |-> engine, calls |-> calls, readyAwaiters |-> readyAwaiters,
    microtasks |-> microtasks, toWorker |-> toWorker ]

Commit(w) ==
  /\ engine' = w.engine
  /\ calls' = w.calls
  /\ readyAwaiters' = w.readyAwaiters
  /\ microtasks' = w.microtasks
  /\ toWorker' = w.toWorker

Continuation(owner, at) == [ owner |-> owner, at |-> at ]

\* resolve or reject of the promise of call c: the first settles it and wakes
\* the one that awaits it, a later one has no effect on the promise
settle(w, c, state, value, error) ==
  IF w.calls[c].state # "pending"
  THEN [w EXCEPT !.calls[c].settled = @ + 1]
  ELSE [w EXCEPT !.calls[c].state = state,
                 !.calls[c].value = value,
                 !.calls[c].error = error,
                 !.calls[c].at = "returned",
                 !.calls[c].settled = @ + 1,
                 !.microtasks = IF w.calls[c].awaiter = "none" THEN @
                                ELSE Append(@, Continuation(c, w.calls[c].awaiter))]

send(w, command) ==
  IF w.engine.worker THEN [w EXCEPT !.toWorker = Append(@, command)] ELSE w

\* the closures of getBestMove
pendingBestMoveResolve(w, bestMove) ==
  settle([w EXCEPT !.engine.pendingBestMoveResolve = NoCall,
                   !.engine.pendingBestMoveReject = NoCall],
         w.engine.pendingBestMoveResolve, "resolved", bestMove, NoError)

pendingBestMoveReject(w, error) ==
  settle([w EXCEPT !.engine.pendingBestMoveResolve = NoCall,
                   !.engine.pendingBestMoveReject = NoCall],
         w.engine.pendingBestMoveReject, "rejected", NoValue, error)

clearPending(w) ==
  [w EXCEPT !.engine.pendingBestMoveResolve = NoCall,
            !.engine.pendingBestMoveReject = NoCall]

\* parts[1] of a bestmove line, null for a missing part and for '(none)'
None == <<"(", "n", "o", "n", "e", ")">>

bestMoveOf(parts) ==
  IF Len(parts) >= 2 /\ parts[2] # <<>> /\ parts[2] # None THEN parts[2] ELSE NoValue

handleBestMove(w, parts) ==
  IF parts[1] # "bestmove" THEN w
  ELSE clearPending(IF w.engine.pendingBestMoveResolve # NoCall
                    THEN pendingBestMoveResolve(w, bestMoveOf(parts))
                    ELSE w)

\* the loop over this.waiters: every waiter the line matches is taken out
\* and resolved
RECURSIVE resolveWaiters(_, _, _)
resolveWaiters(w, parts, i) ==
  IF i > Len(w.engine.waiters) THEN w
  ELSE IF w.engine.waiters[i].matcher = parts
  THEN resolveWaiters(
         [w EXCEPT !.engine.waiters =
                      SubSeq(@, 1, i - 1) \o SubSeq(@, i + 1, Len(@)),
                   !.microtasks =
                      Append(@, Continuation(w.engine.waiters[i].owner, parts[1]))],
         parts, i)
  ELSE resolveWaiters(w, parts, i + 1)

handleMessage(w, parts) == resolveWaiters(handleBestMove(w, parts), parts, 1)

waitFor(w, matcher, owner) ==
  [w EXCEPT !.engine.waiters = Append(@, [ matcher |-> matcher, owner |-> owner ])]

waitReady(w, owner) == waitFor(send(w, <<"isready">>), <<"readyok">>, owner)

awaitInitializeAtOnce(w, c) ==
  [w EXCEPT !.microtasks = Append(@, Continuation(c, "ready"))]

\* await of the promise initialize() returned, by call c
awaitInitialize(w, c) ==
  IF w.engine.readyPromise = "resolved"
  THEN [w EXCEPT !.microtasks = Append(@, Continuation(c, "ready"))]
  ELSE [w EXCEPT !.readyAwaiters = Append(@, c)]

\* faulty variant: a call made while readyPromise is pending starts over
initializeUntilReady(w, c, workerLoads) ==
  IF w.engine.readyPromise = "resolved" THEN awaitInitialize(w, c)
  ELSE IF ~workerLoads
  THEN [w EXCEPT !.microtasks = Append(@, Continuation(c, "threw"))]
  ELSE awaitInitialize(
         waitFor(send([w EXCEPT !.engine.worker = TRUE,
                                !.engine.readyPromise = "pending"],
                      <<"uci">>),
                 <<"uciok">>, InitializeBody),
         c)

\* initialize() up to its return; workerLoads says whether new Worker(...)
\* gives a worker or throws
initialize(w, c, workerLoads) ==
  IF w.engine.readyPromise # "null" THEN awaitInitialize(w, c)
  ELSE IF ~workerLoads
  THEN [w EXCEPT !.microtasks = Append(@, Continuation(c, "threw"))]
  ELSE awaitInitialize(
         waitFor(send([w EXCEPT !.engine.worker = TRUE,
                                !.engine.readyPromise = "pending"],
                      <<"uci">>),
                 <<"uciok">>, InitializeBody),
         c)

\* the function that makes readyPromise, after its first await
initializeAfterUciok(w) ==
  waitReady(send(send(w, <<"setoption", "Skill Level">>), <<"setoption", "Threads">>),
            InitializeBody)

RECURSIVE wakeAll(_, _)
wakeAll(tasks, awaiters) ==
  IF awaiters = <<>> THEN tasks
  ELSE wakeAll(Append(tasks, Continuation(Head(awaiters), "ready")), Tail(awaiters))

\* and after its second: readyPromise is resolved with true
initializeAfterReady(w) ==
  [w EXCEPT !.engine.readyPromise = "resolved",
            !.microtasks = wakeAll(@, w.readyAwaiters),
            !.readyAwaiters = <<>>]

stopPosted(w) ==
  IF w.engine.worker THEN [w EXCEPT !.toWorker = Append(@, <<"stop">>)] ELSE w

stop(w) ==
  clearPending(IF w.engine.pendingBestMoveReject # NoCall
               THEN pendingBestMoveReject(stopPosted(w), "Search stopped")
               ELSE stopPosted(w))

newGame(w, c, awaiter, workerLoads) ==
  initialize([w EXCEPT !.calls[c] = NewPromise("newGame", NoFen, awaiter)],
             c, workerLoads)

newGameAfterInitialize(w, c) ==
  waitReady(send(stop([w EXCEPT !.calls[c].at = "waitReady"]), <<"ucinewgame">>), c)

getBestMove(w, c, fen, awaiter, workerLoads) ==
  initialize([w EXCEPT !.calls[c] = NewPromise("getBestMove", fen, awaiter)],
             c, workerLoads)

\* faulty variant: go follows the position command without waiting for readyok
getBestMoveGoAtOnce(w, c) ==
  send(send([stop(w) EXCEPT !.calls[c].at = "bestmove",
                            !.engine.pendingBestMoveResolve = c,
                            !.engine.pendingBestMoveReject = c],
            <<"position", "fen", w.calls[c].fen>>),
       <<"go", "movetime">>)

getBestMoveAfterInitialize(w, c) ==
  waitReady(send(stop([w EXCEPT !.calls[c].at = "waitReady"]),
                 <<"position", "fen", w.calls[c].fen>>),
            c)

getBestMoveAfterWaitReady(w, c) ==
  send([w EXCEPT !.calls[c].at = "bestmove",
                 !.engine.pendingBestMoveResolve = c,
                 !.engine.pendingBestMoveReject = c],
       <<"go", "movetime">>)

\* setSkillLevel(level) with a number, up to its first await
setSkillLevel(w, c, awaiter, workerLoads) ==
  initialize([w EXCEPT !.calls[c] = NewPromise("setSkillLevel", NoFen, awaiter)],
             c, workerLoads)

setSkillLevelAfterInitialize(w, c) ==
  waitReady(send([w EXCEPT !.calls[c].at = "waitReady"], <<"setoption", "Skill Level">>),
            c)

\* a call of initialize() by the client itself
initializeCall(w, c, awaiter, workerLoads) ==
  initialize([w EXCEPT !.calls[c] = NewPromise("initialize", NoFen, awaiter)],
             c, workerLoads)

\* the continuation t, run as a microtask
continue(w, t) ==
  IF t.owner = InitializeBody
  THEN IF t.at = "uciok" THEN initializeAfterUciok(w) ELSE initializeAfterReady(w)
  ELSE IF t.at = "threw" THEN settle(w, t.owner, "rejected", NoValue, "Worker")
  ELSE IF t.at = "ready"
  THEN IF w.calls[t.owner].method = "getBestMove"
       THEN getBestMoveAfterInitialize(w, t.owner)
       ELSE IF w.calls[t.owner].method = "newGame"
       THEN newGameAfterInitialize(w, t.owner)
       ELSE IF w.calls[t.owner].method = "setSkillLevel"
       THEN setSkillLevelAfterInitialize(w, t.owner)
       ELSE settle(w, t.owner, "resolved", <<"true">>, NoError)
  ELSE IF w.calls[t.owner].method = "getBestMove"
       THEN getBestMoveAfterWaitReady(w, t.owner)
       ELSE settle(w, t.owner, "resolved", NoValue, NoError)

-----------------------------------------------------------------------------
(* The engine worker.  It reads the commands in the order they were posted   *)
(* and answers uci with uciok, isready with readyok and go with one bestmove *)
(* line; the other commands are answered with nothing.                       *)

BestMoveLines ==
  { <<"bestmove", <<"e", "7", "e", "5">> >>, <<"bestmove", None>>, <<"bestmove">> }

answers(command, bestMoveLines) ==
  IF command[1] = "uci" THEN { << <<"id", "name">>, <<"uciok">> >> }
  ELSE IF command[1] = "isready" THEN { << <<"readyok">> >> }
  ELSE IF command[1] = "go" THEN { <<l>> : l \in bestMoveLines }
  ELSE { <<>> }

AdapterInit ==
  /\ engine = NewEngine
  /\ calls = [c \in CallIds |-> NoPromise]
  /\ readyAwaiters = <<>>
  /\ microtasks = <<>>
  /\ toWorker = <<>>
  /\ fromWorker = <<>>
  /\ apiCalls = 0
  /\ workerState = "running"

\* app.js: the fields the App constructor sets (lines 165-171); no promise
\* is the reference 0
NoPromiseRef == 0

humanColor == WHITE

engineColor == BLACK

\* selectedSquare = null
NoSquare == -1

\* currentPieceStates = []: the piece states are kept as the board they were
\* built from, which gives the state by square and the state by id
NoStates == [index \in Squares |-> NoPiece]

NewApp ==
  [ started |-> FALSE, engine |-> FALSE, engineReadyPromise |-> NoPromiseRef,
    prepareEngine |-> "none", singlePlayer |-> TRUE, engineThinking |-> FALSE,
    animationInProgress |-> FALSE, selectedSquare |-> NoSquare, legalMoves |-> <<>>,
    clicked |-> NoSquare, clicks |-> 0, currentPieceStates |-> NoStates,
    activeAnimations |-> <<>>, pieceRegistry |-> <<>> ]

AppConstructed ==
  /\ app = NewApp
  /\ appAwaiters = <<>>
  /\ lastMessage = <<>>

----------------------------------------------------------------------------
(* The caller.  It replays one of a few scripted games call by call (a call  *)
(* is the argument list of move(), legal or not; the engine path passes a    *)
(* promotion piece as third argument), and once the script is finished makes *)
(* further calls from any square to any square, up to MaxFree of them in all.*)
(* reset() and getLegalMoves() may be called at any time; after reset() the  *)
(* caller starts a script again.                                             *)

MaxFree == 1

File(letter) == CHOOSE i \in 1..8 : FILES[i] = letter

\* the square index a name such as e4 stands for (the inverse of squareName)
Sq(letter, rank) == coordToIndex(8 - rank, File(letter) - 1)

Call(l1, r1, l2, r2) ==
  [from |-> Sq(l1, r1), to |-> Sq(l2, r2), promotion |-> "null"]

\* the engine path: move(from, to, promotion) with a promotion piece
CallP(l1, r1, l2, r2, promotion) ==
  [from |-> Sq(l1, r1), to |-> Sq(l2, r2), promotion |-> promotion]

\* fool's mate
FoolsMate ==
  << Call("f",2,"f",3), Call("e",7,"e",5), Call("g",2,"g",4), Call("d",8,"h",4) >>

\* the ten-move stalemate (S. Loyd)
QuickStalemate ==
  << Call("e",2,"e",3), Call("a",7,"a",5), Call("d",1,"h",5), Call("a",8,"a",6),
     Call("h",5,"a",5), Call("h",7,"h",5), Call("h",2,"h",4), Call("a",6,"h",6),
     Call("a",5,"c",7), Call("f",7,"f",6), Call("c",7,"d",7), Call("e",8,"f",7),
     Call("d",7,"b",7), Call("d",8,"d",3), Call("b",7,"b",8), Call("d",3,"h",7),
     Call("b",8,"c",8), Call("f",7,"g",6), Call("c",8,"e",6) >>

\* en passant by both sides, promotion by push and by capture, white O-O,
\* black O-O-O, a queen check at the end
SpecialMoves ==
  << Call("e",2,"e",4), Call("d",7,"d",5), Call("e",4,"e",5), Call("f",7,"f",5),
     Call("e",5,"f",6), Call("b",8,"c",6), Call("f",6,"g",7), Call("g",8,"f",6),
     CallP("g",7,"g",8,KNIGHT), Call("c",8,"f",5), Call("g",1,"f",3),
     Call("d",8,"d",6), Call("f",1,"e",2), Call("e",8,"c",8), Call("e",1,"g",1),
     Call("d",5,"d",4), Call("c",2,"c",4), Call("d",4,"c",3), Call("h",2,"h",3),
     Call("c",3,"b",2), Call("b",1,"c",3), CallP("b",2,"a",1,ROOK),
     Call("g",8,"e",6) >>

\* black O-O, white O-O-O, an en-passant chance that is declined and then
\* asked for too late, a knight check at the end
OtherCastles ==
  << Call("d",2,"d",4), Call("g",8,"f",6), Call("b",1,"c",3), Call("g",7,"g",6),
     Call("c",1,"f",4), Call("f",8,"g",7), Call("d",1,"d",2), Call("e",8,"g",8),
     Call("e",1,"c",1), Call("c",7,"c",5), Call("d",4,"d",5), Call("e",7,"e",5),
     Call("h",2,"h",3), Call("a",7,"a",6), Call("d",5,"e",6), Call("c",3,"e",4),
     Call("b",7,"b",6), Call("e",4,"f",6) >>

\* a knight move that is none; castling refused: path occupied, king in
\* check, crossed square attacked, rook moved and back, king moved and back;
\* a queen check at the end
RefusedCastles ==
  << Call("g",1,"g",3), Call("e",1,"g",1), Call("d",2,"d",4), Call("e",7,"e",6), Call("g",1,"f",3),
     Call("b",7,"b",6), Call("g",2,"g",3), Call("c",8,"a",6), Call("f",1,"g",2),
     Call("f",8,"b",4), Call("e",1,"g",1), Call("c",2,"c",3), Call("b",4,"e",7),
     Call("e",2,"e",4), Call("g",8,"f",6), Call("e",1,"g",1), Call("h",1,"g",1),
     Call("e",8,"g",8), Call("g",1,"h",1), Call("a",6,"b",7), Call("e",1,"g",1),
     Call("e",1,"e",2), Call("d",7,"d",6), Call("e",2,"e",1), Call("h",7,"h",6),
     Call("e",1,"g",1), Call("e",4,"e",5), Call("d",6,"e",5), Call("d",4,"e",5),
     Call("d",8,"d",1) >>

\* scholar's mate
ScholarsMate ==
  << Call("e",2,"e",4), Call("e",7,"e",5), Call("f",1,"c",4), Call("b",8,"c",6),
     Call("d",1,"h",5), Call("g",8,"f",6), Call("h",5,"f",7) >>

\* the white king steps to e2 and back while both rooks stay at home and the
\* king's side is empty; castling is asked for and refused; a bishop check
\* at the end
KingReturns ==
  << Call("e",2,"e",4), Call("e",7,"e",5), Call("g",1,"f",3), Call("b",8,"c",6),
     Call("f",1,"c",4), Call("f",8,"c",5), Call("e",1,"e",2), Call("g",8,"f",6),
     Call("e",2,"e",1), Call("d",7,"d",6), Call("e",1,"g",1), Call("c",4,"f",7) >>

Lines ==
  << FoolsMate, QuickStalemate, SpecialMoves, OtherCastles, RefusedCastles,
     ScholarsMate, KingReturns >>

Init ==
  /\ board = ResetBoard
  /\ nextPieceId = ResetNextPieceId
  /\ currentPlayer = WHITE
  /\ moveHistory = <<>>
  /\ lastMove = NoLastMove
  /\ winner = "null"
  /\ enPassantTarget = NoTarget
  /\ result = NoResult
  /\ line \in 1..Len(Lines)
  /\ step = 0
  /\ free = 0
  /\ AdapterInit
  /\ AppConstructed

ScriptMove ==
  /\ step < Len(Lines[line])
  /\ step' = step + 1
  /\ UNCHANGED <<line, free, adapterVars, appVars>>
  /\ LET call == Lines[line][step + 1] IN
       move(call.from, call.to, call.promotion, LegalMovesFrom(call.from))

\* a call outside the script, as the click handler makes it: move(from, to)
FreeMove ==
  /\ step = Len(Lines[line])
  /\ free < MaxFree
  /\ free' = free + 1
  /\ UNCHANGED <<line, step, adapterVars, appVars>>
  /\ \E fromIndex \in Squares :
       LET generated == LegalMovesFrom(fromIndex) IN
       \E toIndex \in Squares : move(fromIndex, toIndex, "null", generated)

GetLegalMoves ==
  /\ \E index \in Squares :
       board' = IF winner # "null" THEN board
                ELSE IF board[index] = NoPiece \/ board[index].color # currentPlayer
                THEN board
                ELSE LegalMovesFrom(index).board
  /\ UNCHANGED <<currentPlayer, moveHistory, nextPieceId, lastMove, winner,
                 enPassantTarget, result, line, step, free, adapterVars,
                 appVars>>

Reset ==
  /\ reset
  /\ result' = NoResult
  /\ line' \in 1..Len(Lines)
  /\ step' = 0
  /\ free' = free
  /\ UNCHANGED <<adapterVars, appVars>>

Next == ScriptMove \/ FreeMove \/ GetLegalMoves \/ Reset

Spec == Init /\ [][Next]_vars

-----------------------------------------------------------------------------
(* The adapter with a client that calls its methods in any order, at most    *)
(* MaxCalls times.  A message event is handled once no continuation is left  *)
(* to run; the client may call between two continuations, as code that runs  *)
(* in a continuation of its own does.                                        *)

gameUnchanged == UNCHANGED <<gameVars, result, line, step, free, appVars>>

ClientGetBestMove ==
  /\ apiCalls < MaxCalls
  /\ apiCalls' = apiCalls + 1
  /\ Commit(getBestMove(World, apiCalls + 1, <<"fen">>, "none", TRUE))
  /\ UNCHANGED <<fromWorker, workerState>>
  /\ gameUnchanged

ClientNewGame ==
  /\ apiCalls < MaxCalls
  /\ apiCalls' = apiCalls + 1
  /\ Commit(newGame(World, apiCalls + 1, "none", TRUE))
  /\ UNCHANGED <<fromWorker, workerState>>
  /\ gameUnchanged

ClientInitialize ==
  /\ apiCalls < MaxCalls
  /\ apiCalls' = apiCalls + 1
  /\ Commit(initializeCall(World, apiCalls + 1, "none", TRUE))
  /\ UNCHANGED <<fromWorker, workerState>>
  /\ gameUnchanged

ClientStop ==
  /\ apiCalls < MaxCalls
  /\ apiCalls' = apiCalls + 1
  /\ Commit(stop(World))
  /\ UNCHANGED <<fromWorker, workerState>>
  /\ gameUnchanged

RunMicrotask ==
  /\ microtasks # <<>>
  /\ Head(microtasks).at \in {"uciok", "readyok", "ready", "threw"}
  /\ Commit(continue([World EXCEPT !.microtasks = Tail(@)], Head(microtasks)))
  /\ UNCHANGED <<fromWorker, apiCalls, workerState>>
  /\ gameUnchanged

WorkerReads ==
  /\ workerState = "running"
  /\ toWorker # <<>>
  /\ \E written \in answers(Head(toWorker), BestMoveLines) :
       fromWorker' = fromWorker \o written
  /\ toWorker' = Tail(toWorker)
  /\ UNCHANGED <<engine, calls, readyAwaiters, microtasks, apiCalls, workerState>>
  /\ gameUnchanged

MessageEvent ==
  /\ fromWorker # <<>>
  /\ microtasks = <<>>
  /\ Commit(handleMessage(World, Head(fromWorker)))
  /\ fromWorker' = Tail(fromWorker)
  /\ UNCHANGED <<apiCalls, workerState>>
  /\ gameUnchanged

EngineInit ==
  /\ board = ResetBoard
  /\ nextPieceId = ResetNextPieceId
  /\ currentPlayer = WHITE
  /\ moveHistory = <<>>
  /\ lastMove = NoLastMove
  /\ winner = "null"
  /\ enPassantTarget = NoTarget
  /\ result = NoResult
  /\ line = 1
  /\ step = 0
  /\ free = 0
  /\ AdapterInit
  /\ AppConstructed

EngineNext ==
  \/ ClientGetBestMove
  \/ ClientNewGame
  \/ ClientInitialize
  \/ ClientStop
  \/ RunMicrotask
  \/ WorkerReads
  \/ MessageEvent

EngineSpec == EngineInit /\ [][EngineNext]_vars

\* the adapter with a client that sets the skill level as well
ClientSetSkillLevel ==
  /\ apiCalls < MaxCalls
  /\ apiCalls' = apiCalls + 1
  /\ Commit(setSkillLevel(World, apiCalls + 1, "none", TRUE))
  /\ UNCHANGED <<fromWorker, workerState>>
  /\ gameUnchanged

SkillNext ==
  \/ ClientGetBestMove
  \/ ClientNewGame
  \/ ClientInitialize
  \/ ClientSetSkillLevel
  \/ RunMicrotask
  \/ WorkerReads
  \/ MessageEvent

SkillSpec == EngineInit /\ [][SkillNext]_vars

\* the event loop runs every continuation and handles every message event,
\* and the worker reads every command
EngineFair ==
  /\ EngineSpec
  /\ WF_vars(RunMicrotask)
  /\ WF_vars(WorkerReads)
  /\ WF_vars(MessageEvent)

-----------------------------------------------------------------------------
(* app.js and the renderer: the pieces on screen.  A world position is kept  *)
(* as the square it is the centre of (toWorldPosition is one to one), an     *)
(* offset as a vector of whole squares where the code computes one, and as   *)
(* the animation and the time that produced it where the code interpolates.  *)
(* Times are hundredths of a second.                                         *)

moveDuration == 60

sidestepDuration == 25

sidestepReturnDuration == 25

\* Math.max(moveDuration * 0.6, 0.2)
captureDuration == 36

\* moveDuration * 0.8
rookDuration == 48

\* the frame lengths the frame callback is called with
Deltas == {25, 60}

\* the offset [x, 0, z]
At(x, z) == [kind |-> "at", x |-> x, z |-> z, elapsed |-> 0, duration |-> 0]

ZeroOffset == At(0, 0)

\* [perpX * sideSign * sidestepDistance, 0, perpZ * sideSign * sidestepDistance]:
\* (x, z) is the direction, before it is divided by the length of the path
Side(x, z) == [kind |-> "side", x |-> x, z |-> z, elapsed |-> 0, duration |-> 0]

\* the target of a capture animation, [0, -0.8, 0]
Sunk == [kind |-> "sunk", x |-> 0, z |-> 0, elapsed |-> 0, duration |-> 0]

\* the offset an animation that is under way sets in a frame: the eased
\* point between its start and its target, lifted for a move
Eased(anim, along) ==
  [kind |-> anim.phase, x |-> along.x, z |-> along.z, elapsed |-> anim.elapsed,
   duration |-> anim.duration]

NoEntry == [type |-> "null", basePosition |-> NoSquare, offset |-> ZeroOffset]

\* renderer.getPieceEntry(id)
getPieceEntry(registry, id) == IF id \in DOMAIN registry THEN registry[id] ELSE NoEntry

\* renderer.setPieceOffset(id, offset)
setPieceOffset(registry, id, offset) ==
  IF id \in DOMAIN registry THEN [registry EXCEPT ![id].offset = offset] ELSE registry

\* renderer.setPieceBasePosition(id, position)
setPieceBasePosition(registry, id, position) ==
  IF id \in DOMAIN registry THEN [registry EXCEPT ![id].basePosition = position]
  ELSE registry

\* renderer.removePiece(id)
removePiece(registry, id) == [i \in DOMAIN registry \ {id} |-> registry[i]]

\* the ids of the piece states, and the square of the state with an id
IdsOf(states) == { states[i].id : i \in { j \in Squares : states[j] # NoPiece } }

IndexOfId(states, id) ==
  IF id \in IdsOf(states) THEN CHOOSE i \in Squares : states[i].id = id ELSE NoSquare

\* renderer.updatePieceInstances(instances): an entry is made for an id the
\* registry does not hold or holds with another type, every entry gets its
\* base position (#updatePieceEntry), and entries of other ids are deleted
updatePieceInstances(registry, instances) ==
  [id \in IdsOf(instances) |->
     [type |-> instances[IndexOfId(instances, id)].type,
      basePosition |-> IndexOfId(instances, id),
      offset |-> IF id \in DOMAIN registry
                    /\ registry[id].type = instances[IndexOfId(instances, id)].type
                 THEN registry[id].offset
                 ELSE ZeroOffset]]

\* applyPieceStates(states, { updateRenderer })
applyPieceStates(a, states, updateRenderer) ==
  [a EXCEPT !.currentPieceStates = states,
            !.pieceRegistry = IF updateRenderer THEN updatePieceInstances(@, states)
                              ELSE @]

\* updatePieces(): the states are built from the board b
updatePieces(a, b) == applyPieceStates(a, b, TRUE)

Animation(kind, phase, pieceId, duration, startOffset, targetOffset, blockers, onComplete) ==
  [kind |-> kind, phase |-> phase, pieceId |-> pieceId, duration |-> duration,
   elapsed |-> 0, startOffset |-> startOffset, targetOffset |-> targetOffset,
   blockers |-> blockers, onComplete |-> onComplete]

\* position of the state on square a minus position of the state on square b
OffsetBetween(a, b) == At((a % 8) - (b % 8), (b \div 8) - (a \div 8))

\* computeBlockingPieces, the test of one state: p is its place relative to
\* the start of the path, d the path; t is dot / (d . d) and the distance to
\* the path |cross| / |d|
\* faulty variant: a wider threshold, which reaches the neighbours of a diagonal
isBlockerWithin(px, pz, dx, dz) ==
  LET dot == px * dx + pz * dz
      cross == px * dz - pz * dx
      lengthSquared == dx * dx + dz * dz
  IN /\ dot > 0
     /\ dot < lengthSquared
     /\ 25 * cross * cross <= 16 * lengthSquared

isBlocker(px, pz, dx, dz) ==
  LET dot == px * dx + pz * dz
      cross == px * dz - pz * dx
      lengthSquared == dx * dx + dz * dz
  IN /\ dot > 0
     /\ dot < lengthSquared
     /\ 25 * cross * cross <= 9 * lengthSquared

\* Math.sign(offsetX * perpX + offsetZ * perpZ) || 1
sideSign(px, pz, dx, dz) == IF pz * dx - px * dz < 0 THEN -1 ELSE 1

Blocker(id, px, pz, dx, dz) ==
  [id |-> id,
   offset |-> Side(-dz * sideSign(px, pz, dx, dz), dx * sideSign(px, pz, dx, dz))]

\* the squares of the states computeBlockingPieces keeps
blockingSquares(previousStates, from, to, moverId, capturedId) ==
  { index \in Squares :
      /\ previousStates[index] # NoPiece
      /\ previousStates[index].id # moverId
      /\ previousStates[index].id # capturedId
      /\ isBlocker(OffsetBetween(index, from).x, OffsetBetween(index, from).z,
                   OffsetBetween(to, from).x, OffsetBetween(to, from).z) }

\* the blockers in the order of the states, which is the order of the squares
RECURSIVE blockersOn(_, _, _, _)
blockersOn(squares, previousStates, from, to) ==
  IF squares = {} THEN <<>>
  ELSE LET index == CHOOSE i \in squares : \A j \in squares : i <= j IN
       <<Blocker(previousStates[index].id,
                 OffsetBetween(index, from).x, OffsetBetween(index, from).z,
                 OffsetBetween(to, from).x, OffsetBetween(to, from).z)>>
         \o blockersOn(squares \ {index}, previousStates, from, to)

\* computeBlockingPieces: from and to are the squares of fromState and toState
computeBlockingPieces(previousStates, from, to, moverId, capturedId) ==
  IF from = to THEN <<>>
  ELSE blockersOn(blockingSquares(previousStates, from, to, moverId, capturedId),
                  previousStates, from, to)

RECURSIVE outAnimations(_)
outAnimations(blockers) ==
  IF blockers = <<>> THEN <<>>
  ELSE <<Animation("sidestep", "out", Head(blockers).id, sidestepDuration, ZeroOffset,
                   Head(blockers).offset, <<>>, "none")>>
         \o outAnimations(Tail(blockers))

RECURSIVE backAnimations(_)
backAnimations(blockers) ==
  IF blockers = <<>> THEN <<>>
  ELSE <<Animation("sidestep", "back", Head(blockers).id, sidestepReturnDuration,
                   Head(blockers).offset, ZeroOffset, <<>>, "none")>>
         \o backAnimations(Tail(blockers))

RECURSIVE offsetsCleared(_, _)
offsetsCleared(registry, blockers) ==
  IF blockers = <<>> THEN registry
  ELSE offsetsCleared(setPieceOffset(registry, Head(blockers).id, ZeroOffset),
                      Tail(blockers))

\* lines 518-533: the animation of the captured piece
captureAnimations(previousStates, capturedId) ==
  IF capturedId # 0 /\ capturedId \in IdsOf(previousStates)
  THEN <<Animation("capture", "capture", capturedId, captureDuration, ZeroOffset, Sunk,
                   <<>>, "remove")>>
  ELSE <<>>

\* lines 535-562: the rook of a castling move
rookMoves(previousStates, nextStates, castle) ==
  castle # NoCastle /\ previousStates[castle.rookFrom] # NoPiece
    /\ previousStates[castle.rookFrom].id \in IdsOf(nextStates)

rookAnimations(previousStates, nextStates, castle) ==
  IF rookMoves(previousStates, nextStates, castle)
  THEN LET id == previousStates[castle.rookFrom].id IN
       <<Animation("move", "move", id, rookDuration,
                   OffsetBetween(castle.rookFrom, IndexOfId(nextStates, id)),
                   ZeroOffset, <<>>, "none")>>
  ELSE <<>>

rookPlaced(registry, previousStates, nextStates, castle) ==
  IF rookMoves(previousStates, nextStates, castle)
  THEN LET id == previousStates[castle.rookFrom].id IN
       setPieceOffset(setPieceBasePosition(registry, id, IndexOfId(nextStates, id)), id,
                      OffsetBetween(castle.rookFrom, IndexOfId(nextStates, id)))
  ELSE registry

\* scheduleMoveAnimation from line 470 on
animationsScheduled(a, res, from, to, moverId, nextStates, blockers) ==
  [a EXCEPT
     !.animationInProgress = TRUE,
     !.pieceRegistry =
        rookPlaced(
          offsetsCleared(
            setPieceOffset(setPieceBasePosition(@, moverId, to), moverId,
                           OffsetBetween(from, to)),
            blockers),
          a.currentPieceStates, nextStates, res.castle),
     !.activeAnimations =
        @ \o <<Animation("move", "move", moverId, moveDuration, OffsetBetween(from, to),
                         ZeroOffset, blockers, "back")>>
          \o outAnimations(blockers)
          \o captureAnimations(a.currentPieceStates, res.captured.id)
          \o rookAnimations(a.currentPieceStates, nextStates, res.castle)]

\* scheduleMoveAnimation: the piece states of the App are the previous
\* states, nextStates the states built from the board after the move
\* faulty variant: the blockers are looked for only when nothing else is
\* being animated
scheduleMoveAnimationAtRest(a, res, from, to, nextStates) ==
  IF \/ IdsOf(nextStates) = {}
     \/ a.currentPieceStates[from] = NoPiece
     \/ a.currentPieceStates[from].id \notin IdsOf(nextStates)
     \/ a.currentPieceStates[from].id \notin DOMAIN a.pieceRegistry
  THEN applyPieceStates(a, nextStates, TRUE)
  ELSE animationsScheduled(a, res, from,
                           IndexOfId(nextStates, a.currentPieceStates[from].id),
                           a.currentPieceStates[from].id, nextStates,
                           IF a.activeAnimations # <<>> THEN <<>>
                           ELSE computeBlockingPieces(a.currentPieceStates, from,
                                  IndexOfId(nextStates, a.currentPieceStates[from].id),
                                  a.currentPieceStates[from].id, res.captured.id))

scheduleMoveAnimation(a, res, from, to, nextStates) ==
  IF \/ IdsOf(nextStates) = {}
     \/ a.currentPieceStates[from] = NoPiece
     \/ a.currentPieceStates[from].id \notin IdsOf(nextStates)
     \/ a.currentPieceStates[from].id \notin DOMAIN a.pieceRegistry
  THEN applyPieceStates(a, nextStates, TRUE)
  ELSE animationsScheduled(a, res, from,
                           IndexOfId(nextStates, a.currentPieceStates[from].id),
                           a.currentPieceStates[from].id, nextStates,
                           computeBlockingPieces(a.currentPieceStates, from,
                             IndexOfId(nextStates, a.currentPieceStates[from].id),
                             a.currentPieceStates[from].id, res.captured.id))

-----------------------------------------------------------------------------
(* app.js: the orchestrator.  The App's functions are written over the App   *)
(* object, the message shown, the functions that wait on engineReadyPromise  *)
(* and the adapter's world; a move of the game is made by the action that    *)
(* runs the function.  The game the App imports adds two things to the       *)
(* ChessGame above, which are written here from the specification: the       *)
(* colour that moved in a move's result, and the FEN export.                 *)

MaxRequests == 6

\* the scripted games the App is played with
AppLines == {1, 6}

\* the promise prepareEngine() returned; the promise reset() makes from
\* newGame().catch(...) is referred to by the number of that newGame call
PrepareRef == -1

EngineUnavailable == <<"Engine unavailable. Two-player mode active.">>

EngineError == <<"Engine error: unable to make a move.">>

AppContinuations ==
  { "prepareEngine.afterInitialize", "prepareEngine.afterNewGame",
    "initialize.afterPrepare", "reset.catch", "requestEngineMove.afterReady" }

AppWorld ==
  [ app |-> app, lastMessage |-> lastMessage, appAwaiters |-> appAwaiters,
    loads |-> workerState # "unloadable", w |-> World ]

CommitApp(x) ==
  /\ app' = x.app
  /\ lastMessage' = x.lastMessage
  /\ appAwaiters' = x.appAwaiters
  /\ Commit(x.w)

\* result.movedColor: the colour of the side that made the move
movedColor(playerBefore) == playerBefore

FenLetter(piece) ==
  IF piece.color = WHITE THEN PIECE_TO_LETTER(piece.type)
  ELSE toLowerCase(PIECE_TO_LETTER(piece.type))

FenEmpty(empty) == IF empty > 0 THEN <<Digits[empty]>> ELSE <<>>

RECURSIVE FenRow(_, _, _, _)
FenRow(b, row, col, empty) ==
  IF col = 8 THEN FenEmpty(empty)
  ELSE IF b[coordToIndex(row, col)] = NoPiece THEN FenRow(b, row, col + 1, empty + 1)
  ELSE FenEmpty(empty) \o <<FenLetter(b[coordToIndex(row, col)])>>
         \o FenRow(b, row, col + 1, 0)

RECURSIVE FenRows(_, _)
FenRows(b, row) ==
  IF row = 8 THEN <<>>
  ELSE FenRow(b, row, 0, 0) \o (IF row < 7 THEN <<"/">> ELSE <<>>) \o FenRows(b, row + 1)

\* getFEN(): the placement of the pieces and the side to move
getFEN(b, player) == FenRows(b, 0) \o <<" ", IF player = WHITE THEN "w" ELSE "b">>

NoParse == [from |-> -1, to |-> -1, promotion |-> "null"]

\* 'abcdefgh'.indexOf(char)
indexOfFile(char) ==
  IF \E i \in 1..8 : FILES[i] = char THEN (CHOOSE i \in 1..8 : FILES[i] = char) - 1
  ELSE -1

DecimalDigits == <<"0", "1", "2", "3", "4", "5", "6", "7", "8", "9">>

NaN == -1

\* Number.parseInt(char, 10) of one character
parseInt(char) ==
  IF \E i \in 1..10 : DecimalDigits[i] = char
  THEN (CHOOSE i \in 1..10 : DecimalDigits[i] = char) - 1
  ELSE NaN

promotionMap(char) ==
  CASE char = "q" -> QUEEN [] char = "r" -> ROOK [] char = "b" -> BISHOP
    [] char = "n" -> KNIGHT [] OTHER -> "null"

\* faulty variant: rank 1 is taken for the top row of the board
parseSquaresUnflipped(uci, fromFile, fromRank, toFile, toRank) ==
  IF fromFile < 0 \/ toFile < 0 \/ fromRank = NaN \/ toRank = NaN THEN NoParse
  ELSE IF fromRank < 1 \/ fromRank > 8 \/ toRank < 1 \/ toRank > 8 THEN NoParse
  ELSE [ from |-> (fromRank - 1) * 8 + fromFile,
         to |-> (toRank - 1) * 8 + toFile,
         promotion |-> IF Len(uci) >= 5 THEN promotionMap(toLowerCase(uci[5]))
                       ELSE "null" ]

parseSquares(uci, fromFile, fromRank, toFile, toRank) ==
  IF fromFile < 0 \/ toFile < 0 \/ fromRank = NaN \/ toRank = NaN THEN NoParse
  ELSE IF fromRank < 1 \/ fromRank > 8 \/ toRank < 1 \/ toRank > 8 THEN NoParse
  ELSE [ from |-> (8 - fromRank) * 8 + fromFile,
         to |-> (8 - toRank) * 8 + toFile,
         promotion |-> IF Len(uci) >= 5 THEN promotionMap(toLowerCase(uci[5]))
                       ELSE "null" ]

parseUCIMove(uci) ==
  IF Len(uci) < 4 THEN NoParse
  ELSE parseSquares(uci, indexOfFile(uci[1]), parseInt(uci[2]), indexOfFile(uci[3]),
                    parseInt(uci[4]))

\* a canSelectPieces that looks at the animation only
canSelectPiecesBetweenAnimations == ~app.animationInProgress

canSelectPieces ==
  IF app.animationInProgress THEN FALSE
  ELSE IF ~app.singlePlayer THEN TRUE
  ELSE IF app.engineThinking THEN FALSE
  ELSE currentPlayer = humanColor

onMessage(x, text) == [x EXCEPT !.lastMessage = text]

\* the number of the adapter call the App makes next
nextCall(x) == 1 + Cardinality({ c \in DOMAIN x.w.calls : x.w.calls[c].method # "none" })

promiseState(x, ref) ==
  IF ref = PrepareRef THEN x.app.prepareEngine
  ELSE IF x.w.calls[ref].state = "pending" THEN "pending"
  ELSE "resolved"

\* await of an App promise: the continuation runs once the promise is settled
awaitPromise(x, ref, at) ==
  IF promiseState(x, ref) = "pending"
  THEN [x EXCEPT !.appAwaiters = Append(@, [ promise |-> ref, at |-> at ])]
  ELSE [x EXCEPT !.w.microtasks = Append(@, Continuation(ref, at))]

RECURSIVE wake(_, _, _)
wake(x, ref, i) ==
  IF i > Len(x.appAwaiters) THEN x
  ELSE IF x.appAwaiters[i].promise = ref
  THEN wake([x EXCEPT !.appAwaiters = SubSeq(@, 1, i - 1) \o SubSeq(@, i + 1, Len(@)),
                      !.w.microtasks =
                         Append(@, Continuation(ref, x.appAwaiters[i].at))],
            ref, i)
  ELSE wake(x, ref, i + 1)

\* a catch block that delivers the message and leaves the thinking flag alone
engineMoveFailedStillThinking(x) == onMessage(x, EngineError)

\* the catch block of requestEngineMove's try (lines 1322-1327)
engineMoveFailed(x) == onMessage([x EXCEPT !.app.engineThinking = FALSE], EngineError)

\* requestEngineMove from line 1304: the thinking flag, the FEN, getBestMove
think(x, b, player) ==
  IF ~x.app.engine THEN engineMoveFailed(x)
  ELSE [x EXCEPT !.app.engineThinking = TRUE,
                 !.w = getBestMove(x.w, nextCall(x), getFEN(b, player),
                                   "requestEngineMove.afterGetBestMove", x.loads)]

requestEngineMove(x, b, player, winnerNow) ==
  IF ~x.app.singlePlayer \/ ~x.app.engine THEN x
  ELSE IF winnerNow # "null" \/ player # engineColor THEN x
  ELSE IF x.app.engineReadyPromise # NoPromiseRef
  THEN awaitPromise(x, x.app.engineReadyPromise, "requestEngineMove.afterReady")
  ELSE think(x, b, player)

requestEngineMoveAfterReady(x, ref, b, player) ==
  IF promiseState(x, ref) = "rejected"
  THEN onMessage([x EXCEPT !.app.singlePlayer = FALSE, !.app.engineThinking = FALSE],
                 EngineUnavailable)
  ELSE think(x, b, player)

moveMessage(res) ==
  IF res.checkmate THEN <<"Checkmate! ", capitalize(res.winner), " wins.">>
  ELSE IF res.stalemate THEN <<"Stalemate. The game is a draw.">>
  ELSE IF res.check # "null" THEN <<capitalize(res.check), " is in check.">>
  ELSE <<>>

\* a processMoveResult that never hands the turn to the engine
processMoveResultWithoutEngine(x, res, mover, b, player, winnerNow) ==
  IF mover = engineColor THEN [x EXCEPT !.app.engineThinking = FALSE] ELSE x

\* processMoveResult from line 1239, the animation being scheduled and the
\* message delivered
processMoveResultShown(x, res, mover, b, player, winnerNow) ==
  IF ~x.app.singlePlayer THEN x
  ELSE IF mover = humanColor /\ ~res.checkmate /\ ~res.stalemate /\ winnerNow = "null"
  THEN requestEngineMove(x, b, player, winnerNow)
  ELSE IF mover = engineColor THEN [x EXCEPT !.app.engineThinking = FALSE]
  ELSE x

processMoveResult(x, res, mover, b, player, winnerNow) ==
  processMoveResultShown(
    onMessage([x EXCEPT !.app.animationInProgress = TRUE], moveMessage(res)),
    res, mover, b, player, winnerNow)

prepareEngine(x) ==
  [x EXCEPT !.app.engine = TRUE,
            !.app.prepareEngine = "pending",
            !.w = initializeCall(x.w, nextCall(x), "prepareEngine.afterInitialize",
                                 x.loads)]

prepareEngineAfterInitialize(x, c) ==
  IF x.w.calls[c].state = "rejected"
  THEN wake([x EXCEPT !.app.prepareEngine = "rejected"], PrepareRef, 1)
  ELSE [x EXCEPT !.w = newGame(x.w, nextCall(x), "prepareEngine.afterNewGame", x.loads)]

prepareEngineAfterNewGame(x, c) ==
  wake([x EXCEPT !.app.prepareEngine = x.w.calls[c].state], PrepareRef, 1)

\* App.initialize after its await: the catch block of lines 262-270
initializeAfterPrepare(x) ==
  IF x.app.prepareEngine = "rejected"
  THEN onMessage([x EXCEPT !.app.singlePlayer = FALSE,
                           !.app.engine = FALSE,
                           !.app.engineReadyPromise = NoPromiseRef,
                           !.app.engineThinking = FALSE],
                 EngineUnavailable)
  ELSE x

\* the App's part of reset(), the game being reset by the action
resetApp(x) ==
  onMessage(
    IF x.app.engine
    THEN [x EXCEPT !.app.animationInProgress = FALSE,
                   !.app.engineThinking = FALSE,
                   !.app.engineReadyPromise = nextCall(x),
                   !.w = newGame(stop(x.w), nextCall(x), "reset.catch", x.loads)]
    ELSE [x EXCEPT !.app.animationInProgress = FALSE,
                   !.app.engineThinking = FALSE],
    <<>>)

\* the continuation t of one of the App's functions
continueApp(x, t) ==
  IF t.at = "prepareEngine.afterInitialize" THEN prepareEngineAfterInitialize(x, t.owner)
  ELSE IF t.at = "prepareEngine.afterNewGame" THEN prepareEngineAfterNewGame(x, t.owner)
  ELSE IF t.at = "initialize.afterPrepare" THEN initializeAfterPrepare(x)
  ELSE IF t.at = "reset.catch" THEN wake(x, t.owner, 1)
  ELSE requestEngineMoveAfterReady(x, t.owner, board, currentPlayer)

\* the lines the worker may answer a go command with: the script's next
\* move, that move with a promotion letter, no move, a string that is not a
\* move, a move the game refuses, and a line without a move
uciOf(call) == squareName(call.from) \o squareName(call.to)

BestMoveLinesInGame ==
  { <<"bestmove", uci>> :
      uci \in (IF step < Len(Lines[line])
               THEN { uciOf(Lines[line][step + 1]), uciOf(Lines[line][step + 1]) \o <<"q">> }
               ELSE {})
              \cup { None, <<"e", "9", "e", "5">>, <<"a", "1", "a", "8">> } }
    \cup { <<"bestmove">> }

AppInit ==
  /\ board = ResetBoard
  /\ nextPieceId = ResetNextPieceId
  /\ currentPlayer = WHITE
  /\ moveHistory = <<>>
  /\ lastMove = NoLastMove
  /\ winner = "null"
  /\ enPassantTarget = NoTarget
  /\ result = NoResult
  /\ line \in AppLines
  /\ step = 0
  /\ free = 0
  /\ engine = NewEngine
  /\ calls = [c \in 1..MaxRequests |-> NoPromise]
  /\ readyAwaiters = <<>>
  /\ microtasks = <<>>
  /\ toWorker = <<>>
  /\ fromWorker = <<>>
  /\ apiCalls = 0
  /\ workerState \in {"unloadable", "running"}
  /\ AppConstructed

\* App.initialize() up to its await
Initialize ==
  /\ ~app.started
  /\ apiCalls' = 2
  /\ CommitApp(awaitPromise(
       prepareEngine([AppWorld EXCEPT !.app = updatePieces(
                                        [@ EXCEPT !.started = TRUE,
                                                  !.engineReadyPromise = PrepareRef],
                                        board)]),
       PrepareRef, "initialize.afterPrepare"))
  /\ UNCHANGED <<gameVars, result, line, step, free, fromWorker, workerState>>

\* handleSquareSelection with a piece selected and one of its legal moves
\* clicked: the script's next move
HumanMove ==
  /\ app.started
  /\ microtasks = <<>>
  /\ canSelectPieces
  /\ step < Len(Lines[line])
  /\ app.singlePlayer => apiCalls < MaxRequests
  /\ apiCalls' = IF app.singlePlayer THEN apiCalls + 1 ELSE apiCalls
  /\ LET call == Lines[line][step + 1] IN
       /\ board[call.from] # NoPiece
       /\ board[call.from].color = currentPlayer
       /\ FindTarget(getLegalMoves(call.from), call.to) # NoMove
       /\ move(call.from, call.to, "null", LegalMovesFrom(call.from))
  /\ step' = step + 1
  /\ IF result'.success
     THEN CommitApp(processMoveResult(AppWorld, result', movedColor(currentPlayer),
                                      board', currentPlayer', winner'))
     ELSE CommitApp(AppWorld)
  /\ UNCHANGED <<line, free, fromWorker, workerState>>

\* reset(); its newGame() is one adapter call, and a request that is under
\* way may make one more getBestMove() after it than the moves clicked
ResetGame ==
  /\ app.started
  /\ microtasks = <<>>
  /\ app.engine => apiCalls + 2 <= MaxRequests
  /\ apiCalls' = IF app.engine THEN apiCalls + 2 ELSE apiCalls
  /\ reset
  /\ result' = NoResult
  /\ line' \in AppLines
  /\ step' = 0
  /\ CommitApp(resetApp(AppWorld))
  /\ UNCHANGED <<free, fromWorker, workerState>>

\* the frame in which the last animation completes
AnimationFrame ==
  /\ app.animationInProgress
  /\ microtasks = <<>>
  /\ app' = [app EXCEPT !.animationInProgress = FALSE]
  /\ UNCHANGED <<gameVars, result, line, step, free, adapterVars, appAwaiters,
                 lastMessage>>

RunAppContinuation ==
  /\ microtasks # <<>>
  /\ Head(microtasks).at \in AppContinuations
  /\ CommitApp(continueApp([AppWorld EXCEPT !.w.microtasks = Tail(@)], Head(microtasks)))
  /\ UNCHANGED <<gameVars, result, line, step, free, fromWorker, apiCalls, workerState>>

\* requestEngineMove after getBestMove has settled (lines 1309-1327)
engineMoveApplied(x, parsed) ==
  /\ move(parsed.from, parsed.to, parsed.promotion, LegalMovesFrom(parsed.from))
  /\ IF result'.success
     THEN /\ CommitApp(processMoveResult(x, result', movedColor(currentPlayer), board',
                                         currentPlayer', winner'))
          /\ step' = step + 1
     ELSE /\ CommitApp(engineMoveFailed(x))
          /\ step' = step

engineMoveAnswered(x, call, parsed) ==
  IF call.state = "rejected" \/ call.value = NoValue \/ parsed = NoParse
  THEN /\ CommitApp(engineMoveFailed(x))
       /\ UNCHANGED <<gameVars, result, step>>
  ELSE engineMoveApplied(x, parsed)

RequestEngineMoveAnswered ==
  /\ microtasks # <<>>
  /\ Head(microtasks).at = "requestEngineMove.afterGetBestMove"
  /\ engineMoveAnswered([AppWorld EXCEPT !.w.microtasks = Tail(@)],
                        calls[Head(microtasks).owner],
                        parseUCIMove(calls[Head(microtasks).owner].value))
  /\ UNCHANGED <<line, free, fromWorker, apiCalls, workerState>>

WorkerReadsInGame ==
  /\ workerState = "running"
  /\ toWorker # <<>>
  /\ \E written \in answers(Head(toWorker), BestMoveLinesInGame) :
       fromWorker' = fromWorker \o written
  /\ toWorker' = Tail(toWorker)
  /\ UNCHANGED <<engine, calls, readyAwaiters, microtasks, apiCalls, workerState>>
  /\ gameUnchanged

\* the worker fails: the error listener logs the event (lines 78-80), and
\* the worker reads and writes nothing from then on
WorkerError ==
  /\ workerState = "running"
  /\ engine.worker
  /\ workerState' = "dead"
  /\ UNCHANGED <<engine, calls, readyAwaiters, microtasks, toWorker, fromWorker,
                 apiCalls>>
  /\ gameUnchanged

AppNext ==
  \/ Initialize
  \/ HumanMove
  \/ ResetGame
  \/ AnimationFrame
  \/ RunAppContinuation
  \/ RequestEngineMoveAnswered
  \/ RunMicrotask
  \/ MessageEvent
  \/ WorkerReadsInGame
  \/ WorkerError

AppSpec == AppInit /\ [][AppNext]_vars

\* the event loop runs every continuation, message event and frame; a
\* running worker reads every command
AppFair ==
  /\ AppSpec
  /\ WF_vars(RunAppContinuation)
  /\ WF_vars(RequestEngineMoveAnswered)
  /\ WF_vars(RunMicrotask)
  /\ WF_vars(MessageEvent)
  /\ WF_vars(AnimationFrame)
  /\ WF_vars(WorkerReadsInGame)

-----------------------------------------------------------------------------
(* The orchestrator with an engine that may answer any string.  The worker   *)
(* answers go with a bestmove line whose move is any string of up to MaxUci  *)
(* characters, so that parseUCIMove meets well-formed and malformed input.   *)

MaxUci == 4

\* file letters inside and outside a-h, rank digits inside and outside 1-8
UciChars == {"a", "e", "i", "5", "7", "0", "9"}

RECURSIVE StringsOfLength(_)
StringsOfLength(n) ==
  IF n = 0 THEN {<<>>}
  ELSE { Append(u, char) : u \in StringsOfLength(n - 1), char \in UciChars }

\* the strings of one to MaxUci characters, and a few with a fifth character
UciStrings ==
  UNION { StringsOfLength(n) : n \in 1..MaxUci }
    \cup { <<"e", "7", "e", "5", "q">>, <<"a", "7", "a", "5", "N">>,
           <<"e", "7", "i", "5", "q">>, <<"e", "7", "e", "x", "q">> }

AnyBestMoveLines == { <<"bestmove", u>> : u \in UciStrings } \cup { <<"bestmove">> }

WorkerAnswers ==
  /\ workerState = "running"
  /\ toWorker # <<>>
  /\ \E written \in answers(Head(toWorker), AnyBestMoveLines) :
       fromWorker' = fromWorker \o written
  /\ toWorker' = Tail(toWorker)
  /\ UNCHANGED <<engine, calls, readyAwaiters, microtasks, apiCalls, workerState>>
  /\ gameUnchanged

ParseNext ==
  \/ Initialize
  \/ HumanMove
  \/ AnimationFrame
  \/ RunAppContinuation
  \/ RequestEngineMoveAnswered
  \/ RunMicrotask
  \/ MessageEvent
  \/ WorkerAnswers

ParseSpec == AppInit /\ [][ParseNext]_vars

-----------------------------------------------------------------------------
(* app.js: selection and animation, the handlers with the scene.  The       *)
(* actions of the orchestrator above leave the scene out.                    *)

\* updateAnimations, the loop of lines 638-682: the offset animation anim
\* sets in this frame, its elapsed time being advanced already
offsetInFrame(anim) ==
  IF anim.elapsed >= anim.duration
  THEN (IF anim.kind = "move" THEN ZeroOffset ELSE anim.targetOffset)
  ELSE IF anim.kind = "move" \/ anim.phase = "back" THEN Eased(anim, anim.startOffset)
  ELSE Eased(anim, anim.targetOffset)

RECURSIVE offsetsInFrame(_, _)
offsetsInFrame(registry, anims) ==
  IF anims = <<>> THEN registry
  ELSE offsetsInFrame(setPieceOffset(registry, Head(anims).pieceId,
                                     offsetInFrame(Head(anims))),
                      Tail(anims))

\* faulty variant: the clock of a sidestep runs to and fro, never reaching
\* its duration
RECURSIVE advanceToAndFro(_, _)
advanceToAndFro(anims, deltaSeconds) ==
  IF anims = <<>> THEN <<>>
  ELSE <<[Head(anims) EXCEPT !.elapsed =
            IF Head(anims).kind # "sidestep" THEN @ + deltaSeconds
            ELSE IF @ = 0 THEN 10 ELSE 0]>>
         \o advanceToAndFro(Tail(anims), deltaSeconds)

RECURSIVE advance(_, _)
advance(anims, deltaSeconds) ==
  IF anims = <<>> THEN <<>>
  ELSE <<[Head(anims) EXCEPT !.elapsed = @ + deltaSeconds]>>
         \o advance(Tail(anims), deltaSeconds)

RECURSIVE retired(_, _)
retired(anims, done) ==
  IF anims = <<>> THEN <<>>
  ELSE (IF (Head(anims).elapsed >= Head(anims).duration) = done THEN <<Head(anims)>>
        ELSE <<>>)
         \o retired(Tail(anims), done)

\* a move animation that retires without bringing its blockers back
RECURSIVE completedForgetsBlockers(_, _)
completedForgetsBlockers(a, completed) ==
  IF completed = <<>> THEN a
  ELSE completedForgetsBlockers(
         IF Head(completed).onComplete = "remove"
         THEN [a EXCEPT !.pieceRegistry = removePiece(@, Head(completed).pieceId)]
         ELSE a,
         Tail(completed))

\* lines 686-690: the onComplete of every completed animation, in order; a
\* move brings its blockers back (lines 564-578), a capture removes its piece
RECURSIVE completedCalled(_, _)
completedCalled(a, completed) ==
  IF completed = <<>> THEN a
  ELSE completedCalled(
         IF Head(completed).onComplete = "back"
         THEN [a EXCEPT !.activeAnimations = @ \o backAnimations(Head(completed).blockers)]
         ELSE IF Head(completed).onComplete = "remove"
         THEN [a EXCEPT !.pieceRegistry = removePiece(@, Head(completed).pieceId)]
         ELSE a,
         Tail(completed))

\* faulty variant: the flag is cleared by every frame
animationsSettledAtOnce(a) ==
  IF a.animationInProgress
  THEN [a EXCEPT !.animationInProgress = FALSE,
                 !.pieceRegistry = updatePieceInstances(@, a.currentPieceStates)]
  ELSE a

\* lines 693-703: the last animation is gone
animationsSettled(a) ==
  IF a.activeAnimations = <<>> /\ a.animationInProgress
  THEN [a EXCEPT !.animationInProgress = FALSE,
                 !.pieceRegistry = updatePieceInstances(@, a.currentPieceStates)]
  ELSE a

animationsAdvanced(a, anims) ==
  animationsSettled(
    completedCalled([a EXCEPT !.pieceRegistry = offsetsInFrame(@, anims),
                              !.activeAnimations = retired(anims, FALSE)],
                    retired(anims, TRUE)))

updateAnimations(a, deltaSeconds) ==
  IF ~a.animationInProgress /\ a.activeAnimations = <<>> THEN a
  ELSE animationsAdvanced(a, advance(a.activeAnimations, deltaSeconds))

\* faulty variant: the selection outlives the move
processMoveResultKeepsSelection(x, res, from, to, mover, b, player, winnerNow) ==
  processMoveResultShown(
    onMessage(
      [x EXCEPT !.app = applyPieceStates(scheduleMoveAnimation(@, res, from, to, b),
                                         b, FALSE)],
      moveMessage(res)),
    res, mover, b, player, winnerNow)

\* processMoveResult(result, { from, to }), b being the board after the move
processMoveResultAnimated(x, res, from, to, mover, b, player, winnerNow) ==
  processMoveResultShown(
    onMessage(
      [x EXCEPT !.app =
         applyPieceStates(
           scheduleMoveAnimation([@ EXCEPT !.selectedSquare = NoSquare,
                                           !.legalMoves = <<>>],
                                 res, from, to, b),
           b, FALSE)],
      moveMessage(res)),
    res, mover, b, player, winnerNow)

\* reset() with the scene: lines 282-283, 285-287 and 299
resetScene(x) ==
  resetApp([x EXCEPT !.app = updatePieces([@ EXCEPT !.activeAnimations = <<>>,
                                                    !.selectedSquare = NoSquare,
                                                    !.legalMoves = <<>>],
                                          ResetBoard)])

\* the squares that are clicked: those of the script's next move and two
\* others, a8 and e4
Elsewhere == {0, 36}

ClickSquares ==
  Elsewhere \cup (IF step < Len(Lines[line])
                  THEN {Lines[line][step + 1].from, Lines[line][step + 1].to}
                  ELSE {})

\* the click is recorded
clickCounted(a, squareIndex) ==
  [a EXCEPT !.clicked = squareIndex, !.clicks = (@ + 1) % 2]

\* handleSquareSelection finds the clicked square among the legal moves
moveClicked(squareIndex) ==
  app.selectedSquare # NoSquare /\ FindTarget(app.legalMoves, squareIndex) # NoMove

\* a selection that takes a piece of either side
squareSelectedOfEitherSide(a, squareIndex, b) ==
  IF b[squareIndex] # NoPiece
  THEN [a EXCEPT !.selectedSquare = squareIndex, !.legalMoves = <<>>]
  ELSE [a EXCEPT !.selectedSquare = NoSquare, !.legalMoves = <<>>]

\* lines 1198-1205: the clicked square is selected or the selection is
\* dropped; getLegalMoves is called on the board b
squareSelected(a, squareIndex, b) ==
  IF b[squareIndex] # NoPiece /\ b[squareIndex].color = currentPlayer
  THEN [a EXCEPT !.selectedSquare = squareIndex,
                 !.legalMoves =
                    IF winner # "null" THEN <<>>
                    ELSE generateLegalMoves(b, enPassantTarget, squareIndex, b[squareIndex],
                                            b[squareIndex].color).legal]
  ELSE [a EXCEPT !.selectedSquare = NoSquare, !.legalMoves = <<>>]

boardSelected(squareIndex, b) ==
  IF b[squareIndex] # NoPiece /\ b[squareIndex].color = currentPlayer /\ winner = "null"
  THEN generateLegalMoves(b, enPassantTarget, squareIndex, b[squareIndex],
                          b[squareIndex].color).board
  ELSE b

\* lines 1186-1195: the move is made; when the game refuses it the handler
\* goes on to select the clicked square
clickMoves(a, squareIndex) ==
  /\ move(a.selectedSquare, squareIndex, "null", LegalMovesFrom(a.selectedSquare))
  /\ IF result'.success
     THEN /\ CommitApp(processMoveResultAnimated(
                         [AppWorld EXCEPT !.app = a], result', a.selectedSquare,
                         squareIndex, movedColor(currentPlayer), board', currentPlayer',
                         winner'))
          /\ step' = step + 1
     ELSE /\ CommitApp([AppWorld EXCEPT !.app = squareSelected(a, squareIndex, board')])
          /\ step' = step

clickSelects(a, squareIndex) ==
  /\ board' = boardSelected(squareIndex, board)
  /\ CommitApp([AppWorld EXCEPT !.app = squareSelected(a, squareIndex, board)])
  /\ UNCHANGED <<currentPlayer, moveHistory, nextPieceId, lastMove, winner,
                 enPassantTarget, result, step>>

\* handleSquareSelection(squareIndex); a click that makes a move makes the
\* script's next move
Click ==
  /\ app.started
  /\ microtasks = <<>>
  /\ \E squareIndex \in ClickSquares :
       /\ moveClicked(squareIndex) /\ canSelectPieces
            => /\ step < Len(Lines[line])
               /\ Lines[line][step + 1].from = app.selectedSquare
               /\ Lines[line][step + 1].to = squareIndex
               /\ app.singlePlayer => apiCalls < MaxRequests
       /\ IF ~canSelectPieces
          THEN /\ CommitApp([AppWorld EXCEPT !.app = clickCounted(@, squareIndex)])
               /\ UNCHANGED <<gameVars, result, step>>
          ELSE IF moveClicked(squareIndex)
          THEN clickMoves(clickCounted(app, squareIndex), squareIndex)
          ELSE clickSelects(clickCounted(app, squareIndex), squareIndex)
  /\ apiCalls' = IF app.singlePlayer /\ moveHistory' # moveHistory THEN apiCalls + 1
                 ELSE apiCalls
  /\ UNCHANGED <<line, free, fromWorker, workerState>>

\* the frame callback: updateAnimations(deltaSeconds) while something moves
Frame ==
  /\ app.started
  /\ microtasks = <<>>
  /\ app.animationInProgress \/ app.activeAnimations # <<>>
  /\ \E deltaSeconds \in Deltas : app' = updateAnimations(app, deltaSeconds)
  /\ UNCHANGED <<gameVars, result, line, step, free, adapterVars, appAwaiters,
                 lastMessage>>

\* reset() with the scene, called at most MaxFree times
ResetScene ==
  /\ app.started
  /\ microtasks = <<>>
  /\ free < MaxFree
  /\ free' = free + 1
  /\ app.engine => apiCalls + 2 <= MaxRequests
  /\ apiCalls' = IF app.engine THEN apiCalls + 2 ELSE apiCalls
  /\ reset
  /\ result' = NoResult
  /\ step' = 0
  /\ CommitApp(resetScene(AppWorld))
  /\ UNCHANGED <<line, fromWorker, workerState>>

\* requestEngineMove after getBestMove has settled, with the scene
engineMoveShown(x, parsed) ==
  /\ move(parsed.from, parsed.to, parsed.promotion, LegalMovesFrom(parsed.from))
  /\ IF result'.success
     THEN /\ CommitApp(processMoveResultAnimated(x, result', parsed.from, parsed.to,
                                                 movedColor(currentPlayer), board',
                                                 currentPlayer', winner'))
          /\ step' = step + 1
     ELSE /\ CommitApp(engineMoveFailed(x))
          /\ step' = step

RequestEngineMoveShown ==
  /\ microtasks # <<>>
  /\ Head(microtasks).at = "requestEngineMove.afterGetBestMove"
  /\ LET x == [AppWorld EXCEPT !.w.microtasks = Tail(@)]
         call == calls[Head(microtasks).owner]
         parsed == parseUCIMove(calls[Head(microtasks).owner].value)
     IN IF call.state = "rejected" \/ call.value = NoValue \/ parsed = NoParse
        THEN /\ CommitApp(engineMoveFailed(x))
             /\ UNCHANGED <<gameVars, result, step>>
        ELSE engineMoveShown(x, parsed)
  /\ UNCHANGED <<line, free, fromWorker, apiCalls, workerState>>

\* the worker answers a go command with the script's next move
WorkerPlays ==
  /\ workerState = "running"
  /\ toWorker # <<>>
  /\ \E written \in answers(Head(toWorker),
                            { <<"bestmove", uciOf(Lines[line][step + 1])>> :
                                i \in (IF step < Len(Lines[line]) THEN {1} ELSE {}) }
                              \cup { <<"bestmove">> }) :
       fromWorker' = fromWorker \o written
  /\ toWorker' = Tail(toWorker)
  /\ UNCHANGED <<engine, calls, readyAwaiters, microtasks, apiCalls, workerState>>
  /\ gameUnchanged

\* the scripted game the scene is played with
SceneLines == {6}

SceneInit == AppInit /\ line \in SceneLines

\* the App with its scene, played until the game is over
PlayNext ==
  \/ Initialize
  \/ Click
  \/ Frame
  \/ RunAppContinuation
  \/ RequestEngineMoveShown
  \/ RunMicrotask
  \/ MessageEvent
  \/ WorkerPlays

PlaySpec == SceneInit /\ [][PlayNext]_vars

\* the App without an engine, the worker's script not loading, with resets
SceneNext ==
  \/ Initialize
  \/ Click
  \/ Frame
  \/ ResetScene
  \/ RunAppContinuation
  \/ RunMicrotask

NoEngineInit == SceneInit /\ workerState = "unloadable"

SceneSpec == NoEngineInit /\ [][SceneNext]_vars

\* updateAnimations has something to do (lines 632-634): a frame changes the
\* state exactly then
FrameEnabled ==
  /\ app.started
  /\ microtasks = <<>>
  /\ app.animationInProgress \/ app.activeAnimations # <<>>

\* the render loop calls updateAnimations in every frame: weak fairness of
\* Frame, WF_vars(Frame), with ENABLED <<Frame>>_vars written as FrameEnabled
SceneFair == SceneSpec /\ ([]<>(~FrameEnabled) \/ []<><<Frame>>_vars)

----------------------------------------------------------------------------
(* Vocabulary of the properties.  Attack is defined here from the geometry   *)
(* of the pieces, independently of isSquareAttacked, and "has moved" from    *)
(* the move history, independently of the hasMoved flags.                    *)

Abs(x) == IF x < 0 THEN -x ELSE x

Sign(x) == IF x < 0 THEN -1 ELSE IF x > 0 THEN 1 ELSE 0

RowOf(index) == index \div 8

ColOf(index) == index % 8

\* the squares strictly between s and t on their common line are empty
ClearBetween(b, s, t) ==
  LET n == IF Abs(RowOf(t) - RowOf(s)) > Abs(ColOf(t) - ColOf(s))
           THEN Abs(RowOf(t) - RowOf(s)) ELSE Abs(ColOf(t) - ColOf(s))
  IN \A k \in 1..(n - 1) :
       b[(RowOf(s) + k * Sign(RowOf(t) - RowOf(s))) * 8
         + ColOf(s) + k * Sign(ColOf(t) - ColOf(s))] = NoPiece

\* the piece on s attacks the square t
Attacks(b, s, t) ==
  LET dr == RowOf(t) - RowOf(s)
      dc == ColOf(t) - ColOf(s)
  IN /\ s # t
     /\ b[s] # NoPiece
     /\ CASE b[s].type = PAWN ->
               dr = (IF b[s].color = WHITE THEN -1 ELSE 1) /\ Abs(dc) = 1
          [] b[s].type = KNIGHT -> {Abs(dr), Abs(dc)} = {1, 2}
          [] b[s].type = KING -> Abs(dr) <= 1 /\ Abs(dc) <= 1
          [] b[s].type = BISHOP -> Abs(dr) = Abs(dc) /\ ClearBetween(b, s, t)
          [] b[s].type = ROOK -> (dr = 0 \/ dc = 0) /\ ClearBetween(b, s, t)
          [] b[s].type = QUEEN ->
               (dr = 0 \/ dc = 0 \/ Abs(dr) = Abs(dc)) /\ ClearBetween(b, s, t)
          [] OTHER -> FALSE

\* some piece of that color attacks the square t
AttackedBy(b, t, color) ==
  \E s \in Squares : b[s] # NoPiece /\ b[s].color = color /\ Attacks(b, s, t)

\* a king of that color stands on a square an opposing piece attacks
KingAttacked(b, color) ==
  \E k \in Squares :
    /\ b[k] # NoPiece /\ b[k].type = KING /\ b[k].color = color
    /\ AttackedBy(b, k, Opponent(color))

\* the position after the move m of the piece on f, by the rules of chess
Played(b, f, m) ==
  [i \in Squares |->
     IF i = f THEN NoPiece
     ELSE IF i = m.to
     THEN [b[f] EXCEPT !.type = IF m.promotion # "null" THEN m.promotion ELSE @]
     ELSE IF m.enPassant /\ i = m.enPassantCapture THEN NoPiece
     ELSE IF m.castle # NoCastle /\ i = m.castle.rookFrom THEN NoPiece
     ELSE IF m.castle # NoCastle /\ i = m.castle.rookTo THEN b[m.castle.rookFrom]
     ELSE b[i]]

\* the side to move has a legal move, whatever winner says
SideHasMove(color) ==
  \E i \in Squares :
    /\ board[i] # NoPiece /\ board[i].color = color
    /\ Len(LegalMovesFrom(i).legal) > 0

\* this step is a call of move()
MoveCall == step' = step + 1 \/ free' = free + 1

\* this step is a call of move() that succeeded
MoveDone == MoveCall /\ result'.success

\* the destinations getLegalMoves offers for the piece on f
Targets(f) == {LegalMovesFrom(f).legal[k].to : k \in 1..Len(LegalMovesFrom(f).legal)}

\* what move(f, t) has to answer in the current state: "null" is acceptance
Verdict(f, t) ==
  IF winner # "null" THEN "Game over"
  ELSE IF board[f] = NoPiece \/ board[f].color # currentPlayer
  THEN "Select a valid piece"
  ELSE IF t \notin Targets(f) THEN "Illegal move"
  ELSE "null"

----------------------------------------------------------------------------
(* The properties *)

\* C1: in every reachable position, every move getLegalMoves returns for a
\* square leaves, once played, the mover's own king attacked by no opposing
\* piece (plain moves, captures, promotions, en-passant captures, castles).
C1_LegalMovesKeepKingSafe ==
  \A i \in Squares :
    LET moves == getLegalMoves(i) IN
    \A k \in 1..Len(moves) :
      ~KingAttacked(Played(board, i, moves[k]), currentPlayer)

\* C1 witness: a piece that keeps some of its pseudo-legal moves while the
\* filter removes at least one of them
C1_Witness ==
  \E i \in Squares :
    /\ getLegalMoves(i) # <<>>
    /\ Len(getLegalMoves(i))
         < Len(generatePseudoMoves(board, enPassantTarget, i, board[i]))

\* C2: a rejected move() call (game over, no own piece on the source square,
\* destination not among the legal moves) returns success:false with its
\* message and leaves board, flags, types, currentPlayer, moveHistory,
\* lastMove, enPassantTarget and winner as they were; a call is rejected
\* exactly in those cases.
C2_RejectedMoveChangesNothing ==
  [][ MoveCall =>
        /\ ~result'.success =>
             /\ UNCHANGED gameVars
             /\ result'.message \in {"Game over", "Select a valid piece", "Illegal move"}
             /\ result' = FailResult(result'.message)
        /\ result'.success =>
             /\ result'.message = "null"
             /\ Verdict(lastMove'.from, lastMove'.to) = "null"
        /\ step' = step + 1 =>
             result'.message = Verdict(Lines[line][step'].from, Lines[line][step'].to)
    ]_vars

\* C2 witness: an illegal move of an own piece has been refused in mid-game
C2_Witness ==
  /\ ~result.success /\ result.message = "Illegal move"
  /\ moveHistory # <<>>
  /\ \E i \in Squares : getLegalMoves(i) # <<>>

\* C3: after every successful move the winner is the mover exactly when the
\* opponent has no legal move and an attacked king, "draw" exactly when the
\* opponent has no legal move and no attacked king, and null otherwise; with
\* winner null the side to move has a legal move.
C3_WinnerIffNoMoves ==
  /\ winner = "null" => SideHasMove(currentPlayer)
  /\ winner = "draw" =>
       ~SideHasMove(currentPlayer) /\ ~KingAttacked(board, currentPlayer)
  /\ winner \in PieceColor =>
       /\ winner = Opponent(currentPlayer)
       /\ ~SideHasMove(currentPlayer)
       /\ KingAttacked(board, currentPlayer)
  /\ winner \in PieceColor \cup {"draw", "null"}
  /\ result.success =>
       /\ result.winner = winner
       /\ result.checkmate = (winner \in PieceColor)
       /\ result.stalemate = (winner = "draw")
       /\ (result.check # "null") = KingAttacked(board, currentPlayer)

\* C3 witness: a move has just stalemated the opponent
C3_Witness == winner = "draw" /\ result.success /\ result.stalemate

\* C4: once winner is non-null it stays so, every move() call fails (with
\* "Game over") and every getLegalMoves call returns the empty list, board,
\* currentPlayer and history unchanged, until reset() is called.
C4_WinnerLocksGame ==
  /\ [](winner # "null" => \A i \in Squares : getLegalMoves(i) = <<>>)
  /\ [][ winner # "null" =>
           \/ reset
           \/ /\ UNCHANGED gameVars
              /\ MoveCall => result' = FailResult("Game over")
       ]_vars

\* C4 witness: move() has been called on a finished game
C4_Witness == winner # "null" /\ result = FailResult("Game over")

\* a king of that color has moved: its history shows a king move or a castle
KingHasMoved(color) ==
  \E n \in 1..Len(moveHistory) :
    /\ moveHistory[n][1] = capitalize(color)
    /\ Len(moveHistory[n]) = 4 \/ moveHistory[n][3] = "K"

\* some recorded move left the square or arrived on it
SquareTouched(index) ==
  \E n \in 1..Len(moveHistory) :
    /\ Len(moveHistory[n]) > 4
    /\ \/ <<moveHistory[n][4], moveHistory[n][5]>> = squareName(index)
       \/ <<moveHistory[n][9], moveHistory[n][10]>> = squareName(index)

\* the corner square of the king's row on that side
Corner(k, side) == RowOf(k) * 8 + (IF side = "king" THEN 7 ELSE 0)

\* the direction the king travels toward that side
Toward(side) == IF side = "king" THEN 1 ELSE -1

\* the conditions of castling for the king on k toward that side
CastleAllowed(b, k, side) ==
  /\ b[k] # NoPiece /\ b[k].type = KING
  /\ k = (IF b[k].color = WHITE THEN 60 ELSE 4)
  /\ ~KingHasMoved(b[k].color)
  /\ b[Corner(k, side)] # NoPiece
  /\ b[Corner(k, side)].type = ROOK
  /\ b[Corner(k, side)].color = b[k].color
  /\ ~SquareTouched(Corner(k, side))
  /\ ClearBetween(b, k, Corner(k, side))
  /\ \A n \in 0..2 : ~AttackedBy(b, k + n * Toward(side), Opponent(b[k].color))

\* C5: getLegalMoves of a king contains a castle toward a side only if the
\* king never moved, the corner of that side holds an own rook that never
\* moved, the squares between them are empty and neither the king's square
\* nor the square it crosses nor the one it lands on is attacked; move()
\* rejects a castle whenever one of these fails.
C5_CastleOnlyWhenAllowed ==
  /\ [](\A i \in Squares :
          LET moves == getLegalMoves(i) IN
          \A k \in 1..Len(moves) :
            moves[k].castle # NoCastle =>
              /\ CastleAllowed(board, i, moves[k].castle.side)
              /\ moves[k].to = i + 2 * Toward(moves[k].castle.side)
              /\ moves[k].castle.rookFrom = Corner(i, moves[k].castle.side)
              /\ moves[k].castle.rookTo = i + Toward(moves[k].castle.side))
  /\ [][ /\ MoveDone /\ (result'.castle # NoCastle
                         \/ (board[lastMove'.from].type = KING
                             /\ Abs(lastMove'.to - lastMove'.from) = 2)) =>
              /\ result'.castle # NoCastle
              /\ board[lastMove'.from].type = KING
              /\ lastMove'.to
                   = lastMove'.from + 2 * Toward(result'.castle.side)
              /\ CastleAllowed(board, lastMove'.from, result'.castle.side)
         /\ /\ step' = step + 1
            /\ board[Lines[line][step'].from] # NoPiece
            /\ board[Lines[line][step'].from].type = KING
            /\ \E side \in {"king", "queen"} :
                 /\ Lines[line][step'].to
                      = Lines[line][step'].from + 2 * Toward(side)
                 /\ ~CastleAllowed(board, Lines[line][step'].from, side)
            => ~result'.success /\ UNCHANGED gameVars
       ]_vars

\* C5 witness: a castle is among a king's legal moves
C5_Witness ==
  \E i \in Squares : \E k \in 1..Len(getLegalMoves(i)) :
    getLegalMoves(i)[k].castle # NoCastle

DoublePush ==
  /\ lastMove # NoLastMove
  /\ board[lastMove.to] # NoPiece /\ board[lastMove.to].type = PAWN
  /\ Abs(lastMove.to - lastMove.from) = 16

\* the square the pawn of the last move skipped
Skipped == (lastMove.from + lastMove.to) \div 2

\* the squares next to the pawn of the last move, on its row
Beside == {n \in {lastMove.to - 1, lastMove.to + 1} :
             n \in Squares /\ RowOf(n) = RowOf(lastMove.to)}

\* the en-passant capture by the pawn on n of the pawn of the last move
EnPassantBy(n) == Candidate(n, Skipped, "null", NoCastle, TRUE, lastMove.to)

C8_EnPassantLastsOneMove ==
  /\ [](/\ (enPassantTarget # NoTarget) = DoublePush
        /\ enPassantTarget # NoTarget =>
             enPassantTarget = [index |-> Skipped, captureColor |-> currentPlayer]
        /\ \A i \in Squares :
             LET moves == getLegalMoves(i) IN
             \A k \in 1..Len(moves) :
               moves[k].enPassant => DoublePush /\ moves[k] = EnPassantBy(i))
  /\ [][ MoveDone =>
           (enPassantTarget' # NoTarget) =
             (/\ board[lastMove'.from].type = PAWN
              /\ Abs(lastMove'.to - lastMove'.from) = 16
              /\ ~result'.enPassant)
       ]_vars

\* C8 witness: an en-passant capture asked for one move too late has been
\* refused: the pawns still stand side by side, the skipped square is empty
C8_Witness ==
  /\ ~result.success /\ result.message = "Illegal move"
  /\ enPassantTarget = NoTarget
  /\ \E n \in Squares : \E d \in {-1, 1} :
       /\ ColOf(n) + d \in 0..7
       /\ board[n] # NoPiece /\ board[n].type = PAWN
       /\ board[n].color = currentPlayer
       /\ RowOf(n) = (IF currentPlayer = WHITE THEN 3 ELSE 4)
       /\ board[n + d] # NoPiece /\ board[n + d].type = PAWN
       /\ board[n + d].color # currentPlayer
       /\ board[n + d + (IF currentPlayer = WHITE THEN -8 ELSE 8)] = NoPiece
       /\ SquareTouched(n + d)

\* C9: a pawn move, push or capture, that lands on row 0 or 7 makes the
\* piece a queen in the same call and keeps its id, whatever promotion
\* argument is passed; no position has a pawn on row 0 or 7, and no piece id
\* is created after reset().
C9_PromotionToQueenKeepsId ==
  /\ [](/\ \A i \in Squares :
             board[i] # NoPiece =>
               /\ board[i].type = PAWN => RowOf(i) \notin {0, 7}
               /\ \E j \in Squares :
                    /\ ResetBoard[j].id = board[i].id
                    /\ ResetBoard[j].color = board[i].color
               /\ \A j \in Squares \ {i} :
                    board[j] # NoPiece => board[j].id # board[i].id
        /\ nextPieceId = ResetNextPieceId)
  /\ [][ MoveDone =>
           board'[lastMove'.to] =
             [board[lastMove'.from] EXCEPT
                !.hasMoved = TRUE,
                !.type = IF @ = PAWN /\ RowOf(lastMove'.to) \in {0, 7}
                         THEN QUEEN ELSE @]
       ]_vars

\* C9 witness: a pawn has just been promoted
C9_Witness ==
  /\ result.success
  /\ RowOf(lastMove.to) \in {0, 7}
  /\ board[lastMove.to].type = QUEEN
  /\ \E j \in Squares :
       ResetBoard[j].id = board[lastMove.to].id /\ ResetBoard[j].type = PAWN

\* C10: every successful move() appends exactly one entry to the history,
\* leaving the earlier entries as they were, records lastMove = (from, to) and
\* flips currentPlayer; currentPlayer is white exactly when the history
\* length is even.
C10_OneEntryPerMove ==
  /\ []((currentPlayer = WHITE) = (Len(moveHistory) % 2 = 0))
  /\ [][ /\ MoveDone =>
              /\ Len(moveHistory') = Len(moveHistory) + 1
              /\ SubSeq(moveHistory', 1, Len(moveHistory)) = moveHistory
              /\ moveHistory'[Len(moveHistory')] = result'.historyEntry
              /\ board[lastMove'.from] # NoPiece
              /\ board[lastMove'.from].color = currentPlayer
              /\ board'[lastMove'.to].id = board[lastMove'.from].id
              /\ board'[lastMove'.from] = NoPiece
              /\ step' = step + 1 =>
                   /\ lastMove'.from = Lines[line][step'].from
                   /\ lastMove'.to = Lines[line][step'].to
              /\ currentPlayer' = Opponent(currentPlayer)
         /\ moveHistory' # moveHistory => MoveDone \/ reset
       ]_vars

\* C10 witness: a black move has been recorded after a white one
C10_Witness ==
  /\ result.success
  /\ Len(moveHistory) >= 2
  /\ currentPlayer = WHITE
  /\ moveHistory[Len(moveHistory)][1] = "Black"
  /\ moveHistory[Len(moveHistory) - 1][1] = "White"

\* the back rank, from the a-file to the h-file
BackRank == <<ROOK, KNIGHT, BISHOP, QUEEN, KING, BISHOP, KNIGHT, ROOK>>

\* the standard starting placement, ids counted along the rows from a8
StartPlacement ==
  [i \in Squares |->
     IF RowOf(i) = 0
     THEN [type |-> BackRank[ColOf(i) + 1], color |-> BLACK, hasMoved |-> FALSE,
           id |-> i + 1]
     ELSE IF RowOf(i) = 1
     THEN [type |-> PAWN, color |-> BLACK, hasMoved |-> FALSE, id |-> i + 1]
     ELSE IF RowOf(i) = 6
     THEN [type |-> PAWN, color |-> WHITE, hasMoved |-> FALSE, id |-> i - 31]
     ELSE IF RowOf(i) = 7
     THEN [type |-> BackRank[ColOf(i) + 1], color |-> WHITE, hasMoved |-> FALSE,
           id |-> i - 31]
     ELSE NoPiece]

\* the state of a freshly constructed game
FreshGame ==
  /\ board = StartPlacement
  /\ {board[i].id : i \in {j \in Squares : board[j] # NoPiece}} = 1..32
  /\ currentPlayer = WHITE
  /\ moveHistory = <<>>
  /\ lastMove = NoLastMove
  /\ winner = "null"
  /\ enPassantTarget = NoTarget

\* C11: after any sequence of moves reset() produces the state of a freshly
\* constructed game: the starting placement, 32 pieces with ids 1..32 and
\* hasMoved false, white to move, empty history, lastMove, winner and
\* enPassantTarget null; a second reset() gives the same state again.
C11_ResetGivesFreshGame == step = 0 => FreshGame

\* C11 witness: reset() has been called after a whole game and a further call
C11_Witness == step = 0 /\ free > 0 /\ FreshGame

\* the number of moves getLegalMoves returns over the squares i..63
RECURSIVE MovesFromOn(_)
MovesFromOn(i) ==
  IF i > 63 THEN 0 ELSE Len(getLegalMoves(i)) + MovesFromOn(i + 1)

\* C12: in the starting position getLegalMoves over the 64 squares gives 20
\* moves in all: the single and the double push for each white pawn, two
\* jumps for each white knight, nothing for any other square.
C12_TwentyOpeningMoves ==
  board = StartPlacement /\ moveHistory = <<>> =>
    /\ MovesFromOn(0) = 20
    /\ \A i \in Squares :
         {getLegalMoves(i)[k].to : k \in 1..Len(getLegalMoves(i))} =
           IF RowOf(i) = 6 THEN {i - 8, i - 16}
           ELSE IF i \in {57, 62} THEN {i - 17, i - 15}
           ELSE {}
    /\ \A i \in Squares : Len(getLegalMoves(i)) \in {0, 2}

\* C12 witness: the starting position, with a knight that has its two jumps
C12_Witness ==
  /\ board = StartPlacement /\ moveHistory = <<>>
  /\ Len(getLegalMoves(57)) = 2

\* the from and to squares the n-th history entry names
Named(n) ==
  <<moveHistory[n][4], moveHistory[n][5], moveHistory[n][9], moveHistory[n][10]>>

\* the game so far is f2-f3, e7-e5, g2-g4, Qd8-h4
FoolsMatePlayed ==
  /\ Len(moveHistory) = 4
  /\ \A n \in 1..4 : Len(moveHistory[n]) > 4
  /\ Named(1) = <<"f", "2", "f", "3">>
  /\ Named(2) = <<"e", "7", "e", "5">>
  /\ Named(3) = <<"g", "2", "g", "4">>
  /\ Named(4) = <<"d", "8", "h", "4">>
  /\ moveHistory[4][3] = "Q"

\* C13: the fool's mate sequence makes the last move() return checkmate =
\* true and sets winner to black; from then on getLegalMoves is empty for
\* every square holding a white piece.
C13_FoolsMate ==
  /\ [](FoolsMatePlayed =>
          /\ winner = "black"
          /\ \A i \in Squares :
               board[i] # NoPiece /\ board[i].color = WHITE =>
                 getLegalMoves(i) = <<>>)
  /\ [][ MoveDone /\ FoolsMatePlayed' =>
           /\ result'.checkmate
           /\ result'.winner = "black"
           /\ ~result'.stalemate
           /\ result'.check = WHITE
       ]_vars

\* C13 witness: the queen stands on h4 and white is mated
C13_Witness ==
  /\ FoolsMatePlayed
  /\ result.success /\ result.checkmate
  /\ board[39] # NoPiece /\ board[39].type = QUEEN /\ board[39].color = BLACK

-----------------------------------------------------------------------------
(* Vocabulary of the properties of the adapter *)

\* the promise call c of getBestMove returned is not settled
Unsettled(c) == calls[c].method = "getBestMove" /\ calls[c].state = "pending"

\* the client calls stop(): a call that returns no promise
StopCalled == apiCalls' = apiCalls + 1 /\ calls'[apiCalls + 1].method = "none"

\* the client calls getBestMove() or newGame()
RequestCalled ==
  /\ apiCalls' = apiCalls + 1
  /\ calls'[apiCalls + 1].method \in {"getBestMove", "newGame"}

\* a message event hands a bestmove line to handleMessage
BestMoveArrives ==
  /\ fromWorker # <<>>
  /\ Head(fromWorker)[1] = "bestmove"
  /\ fromWorker' = Tail(fromWorker)

\* C14: a stop() called while a getBestMove promise is pending rejects that
\* promise, once and with an error; nothing resolves or rejects a settled
\* promise again, and a bestmove line that finds no request pending changes
\* nothing.
C14_StopRejectsPendingOnce ==
  /\ [][ \A c \in CallIds :
           StopCalled /\ Unsettled(c) =>
             /\ calls'[c].state = "rejected"
             /\ calls'[c].error = "Search stopped"
             /\ calls'[c].settled = 1
       ]_vars
  /\ [](\A c \in CallIds : calls[c].settled <= 1)
  /\ [][ \A c \in CallIds :
           calls[c].state \in {"resolved", "rejected"} => calls'[c] = calls[c]
       ]_vars
  /\ [][ BestMoveArrives /\ engine.pendingBestMoveResolve = NoCall =>
           UNCHANGED <<engine, calls, microtasks, toWorker>>
       ]_vars

\* call b, a getBestMove() or newGame(), has gone past the stop() it makes
PastItsStop(b) ==
  /\ calls[b].method \in {"getBestMove", "newGame"}
  /\ calls[b].at \in {"waitReady", "bestmove", "returned"}

\* C15: at most one best-move request is outstanding: a getBestMove promise
\* that is unsettled when a later getBestMove() or newGame() is made is
\* rejected by that call, and no unsettled request that has sent its go
\* command is left without the resolver that a bestmove line would call.
C15_AtMostOneOutstanding ==
  /\ \A a, b \in CallIds : a < b /\ PastItsStop(b) => ~Unsettled(a)
  /\ \A a \in CallIds :
       Unsettled(a) /\ calls[a].at = "bestmove" => engine.pendingBestMoveResolve = a

\* the commands the step posts to the worker
Posted == { toWorker'[i] : i \in (Len(toWorker) + 1)..Len(toWorker') }

\* call c of getBestMove() was made before readyPromise was resolved
Queued(c) ==
  /\ calls[c].method = "getBestMove"
  /\ \E i \in 1..Len(readyAwaiters) : readyAwaiters[i] = c

\* the promise of call c is resolved with what a bestmove line carried
Answered(c) ==
  /\ calls[c].state = "resolved"
  /\ calls[c].value \in { bestMoveOf(parts) : parts \in BestMoveLines }

-----------------------------------------------------------------------------
(* Vocabulary of the properties of the orchestrator *)

IsRequest(entry) == entry.at = "requestEngineMove.afterReady"

\* the calls of requestEngineMove that wait for the engine to be ready
Requests == Len(SelectSeq(appAwaiters, IsRequest)) + Len(SelectSeq(microtasks, IsRequest))

\* a click makes a move of the game while the App plays against the engine
HumanMoves == app.singlePlayer /\ step' = step + 1 /\ apiCalls' = apiCalls + 1

\* the step calls getBestMove(): call c comes into being
BestMoveRequested(c) == calls[c].method = "none" /\ calls'[c].method = "getBestMove"

\* the step runs the continuation of requestEngineMove that receives what
\* call c of getBestMove was settled with
AnswerArrives(c) ==
  /\ microtasks # <<>>
  /\ Head(microtasks).at = "requestEngineMove.afterGetBestMove"
  /\ Head(microtasks).owner = c
  /\ microtasks' # microtasks

\* the squares a string of four or five characters names, if it names any
SquaresNamed(uci) ==
  { <<f, t>> \in Squares \X Squares :
      /\ Len(uci) \in {4, 5}
      /\ squareName(f) = <<uci[1], uci[2]>>
      /\ squareName(t) = <<uci[3], uci[4]>> }

\* the answer names a move the game accepts in the current state
Playable(uci) == \E ft \in SquaresNamed(uci) : Verdict(ft[1], ft[2]) = "null"

RequestFailed(c) ==
  \/ calls[c].state = "rejected"
  \/ calls[c].value = NoValue
  \/ SquaresNamed(calls[c].value) = {}
  \/ ~Playable(calls[c].value)

\* C18: when requestEngineMove receives a failed answer (a rejection, null,
\* an unparseable string or a move that move() refuses) it clears
\* engineThinking and delivers the engine-error message, and board,
\* currentPlayer, history and winner are what they were.
C18_FailedRequestLeavesGame ==
  [][ \A c \in DOMAIN calls :
        AnswerArrives(c) /\ RequestFailed(c) =>
          /\ ~app'.engineThinking
          /\ lastMessage' = EngineError
          /\ UNCHANGED <<board, currentPlayer, moveHistory, winner>>
          /\ UNCHANGED <<nextPieceId, lastMove, enPassantTarget>>
    ]_vars

\* C18 witness: after f2-f3 the engine has answered a1a8, which move() has
\* refused
C18_Witness ==
  /\ lastMessage = EngineError
  /\ ~app.engineThinking
  /\ Len(moveHistory) = 1
  /\ currentPlayer = engineColor
  /\ ~result.success
  /\ microtasks = <<>>
  /\ \E c \in DOMAIN calls :
       /\ calls[c].state = "resolved"
       /\ calls[c].value = <<"a", "1", "a", "8">>

\* nothing is left to run: no continuation is queued, no line of the engine
\* is undelivered, and the worker has no command to read or reads no more
EventLoopIdle ==
  /\ microtasks = <<>>
  /\ fromWorker = <<>>
  /\ toWorker = <<>> \/ workerState # "running"

\* C19: the selection lock never stays stuck: while engineThinking is true
\* something is still to run that will clear it, whatever way the engine
\* fails, a worker error during a request and a missing bestmove line
\* included.
C19_SelectionLockReleased == app.engineThinking => ~EventLoopIdle

\* the engine is unavailable: the worker could not be created, or it has
\* stopped before it answered the handshake with uciok and readyok
Unavailable ==
  \/ workerState = "unloadable"
  \/ workerState = "dead" /\ engine.readyPromise = "pending"

\* C20: with the engine unavailable, because new Worker throws or because
\* the handshake is never answered, the application ends up in two-player
\* mode: once nothing is left to run, singlePlayer and engineThinking are
\* false and the side to move can select its pieces.
C20_UnavailableEngineFallsBack ==
  app.started /\ Unavailable /\ EventLoopIdle /\ ~app.animationInProgress =>
    /\ ~app.singlePlayer
    /\ ~app.engineThinking
    /\ canSelectPieces

----------------------------------------------------------------------------
(* Make and unmake.                                                          *)

\* the pseudo-legal moves generated for the piece on f in the current state
PseudoMovesAt(f) == generatePseudoMoves(board, enPassantTarget, f, board[f])

\* the undo of an applied move gives the current board back
RoundTrip(applied) == undoMove(applied.board, applied.moveState) = board

\* C25: in every reachable position, applyMove followed by undoMove on the
\* returned record restores all 64 squares, with type and hasMoved of every
\* piece, for every pseudo-legal move of every piece (quiet move, capture,
\* promotion, en-passant capture, castle).
C25_ApplyUndoRestoresBoard ==
  \A f \in Squares :
    board[f] # NoPiece =>
      \A k \in 1..Len(PseudoMovesAt(f)) :
        RoundTrip(applyMove(board, f, PseudoMovesAt(f)[k]))

\* C25 witness: an en-passant capture is among the pseudo-legal moves, and
\* applying it takes the captured pawn off a square that is not the target
C25_Witness ==
  \E f \in Squares :
    /\ board[f] # NoPiece
    /\ \E k \in 1..Len(PseudoMovesAt(f)) :
         /\ PseudoMovesAt(f)[k].enPassant
         /\ applyMove(board, f, PseudoMovesAt(f)[k]).moveState.enPassantCaptured # NoPiece
         /\ applyMove(board, f, PseudoMovesAt(f)[k]).board # board

\* the squares that hold a king of the colour
KingsOf(color) == { i \in Squares : board[i] # NoPiece /\ board[i].type = KING /\ board[i].color = color }

\* C26: in every reachable state no piece id is on two squares, the board
\* holds exactly one white and exactly one black king, and the piece a move
\* has captured is never a king.
C26_PiecesAndKingsUnique ==
  /\ \A i \in Squares : \A j \in Squares :
       i # j /\ board[i] # NoPiece /\ board[j] # NoPiece => board[i].id # board[j].id
  /\ Cardinality(KingsOf(WHITE)) = 1
  /\ Cardinality(KingsOf(BLACK)) = 1
  /\ result.success /\ result.captured # NoPiece => result.captured.type # KING

\* C26 witness: a move has captured a piece and a promoted pawn is on the
\* board
C26_Witness ==
  /\ result.success
  /\ result.captured # NoPiece
  /\ \E i \in Squares : \E j \in Squares :
       /\ board[i] # NoPiece
       /\ ResetBoard[j].id = board[i].id
       /\ ResetBoard[j].type = PAWN
       /\ board[i].type # PAWN

\* the castle moves the colour has made in this game
CastlesOf(color) ==
  { n \in 1..Len(moveHistory) :
      moveHistory[n][1] = capitalize(color) /\ Len(moveHistory[n]) = 4 }

\* getLegalMoves offers a castle to a piece of the colour
CastleOffered(color) ==
  \E i \in Squares :
    /\ board[i] # NoPiece /\ board[i].color = color
    /\ \E k \in 1..Len(getLegalMoves(i)) : getLegalMoves(i)[k].castle # NoCastle

\* C27: in a game (since the last reset) each colour castles at most once,
\* and once its king has moved, by castling or otherwise, no legal-move set
\* holds a castle for that colour again.
C27_CastleAtMostOnce ==
  \A color \in {WHITE, BLACK} :
    /\ Cardinality(CastlesOf(color)) <= 1
    /\ KingHasMoved(color) => ~CastleOffered(color)

\* C27 witness: the white king has moved and is back on e1 with the rook on
\* h1 and the squares between them empty, and it is white's turn
C27_Witness ==
  /\ KingHasMoved(WHITE)
  /\ CastlesOf(WHITE) = {}
  /\ currentPlayer = WHITE
  /\ board[60] # NoPiece /\ board[60].type = KING
  /\ board[63] # NoPiece /\ board[63].type = ROOK /\ ~board[63].hasMoved
  /\ board[61] = NoPiece /\ board[62] = NoPiece

----------------------------------------------------------------------------
(* Vocabulary of the properties of the adapter's line handling.              *)

\* the step is a message event: the listener handles the oldest line
LineHandled == fromWorker # <<>> /\ fromWorker' = Tail(fromWorker)

\* the waiters registered for the line, by position in the list
Matching(parts) == { i \in 1..Len(engine.waiters) : engine.waiters[i].matcher = parts }

\* the list without its i-th entry
Without(list, i) == SubSeq(list, 1, i - 1) \o SubSeq(list, i + 1, Len(list))

\* the earliest registered waiter for the line
FirstMatching(parts) == CHOOSE i \in Matching(parts) : \A j \in Matching(parts) : i <= j

\* C28: for each incoming line only the first waiter, in registration
\* order, whose predicate matches is removed and resolved; the other
\* waiters that match the line stay registered.
C28_FirstMatchConsumesLine ==
  [][ LineHandled =>
        IF Matching(Head(fromWorker)) = {}
        THEN engine'.waiters = engine.waiters
        ELSE engine'.waiters = Without(engine.waiters, FirstMatching(Head(fromWorker)))
    ]_vars

\* the commands the step posts to the worker, in the order posted
PostedSeq == SubSeq(toWorker', Len(toWorker) + 1, Len(toWorker'))

\* the uciok line has been handled: the handshake no longer waits for it
UciokReceived ==
  /\ engine.worker
  /\ \A i \in 1..Len(engine.waiters) : engine.waiters[i].matcher # <<"uciok">>

\* the step runs the continuation of a wait that a readyok line has ended
AfterReadyok(owner) ==
  /\ microtasks # <<>>
  /\ Head(microtasks) = Continuation(owner, "readyok")

\* C29: the adapter keeps the handshake order.  uci is the first command
\* sent; setoption and isready are sent only after uciok was received;
\* initialize() resolves only in the continuation that a readyok line
\* resumed, and that continuation is queued only by a readyok line;
\* ucinewgame, position and go are sent only after initialize() has
\* resolved; getBestMove posts stop, position fen, isready in this order, and
\* go only in the continuation a readyok line resumed.
C29_HandshakeOrder ==
  [][ /\ ~engine.worker /\ PostedSeq # <<>> => PostedSeq[1] = <<"uci">>
      /\ \A i \in 1..Len(PostedSeq) :
           /\ PostedSeq[i][1] = "uci" => ~engine.worker /\ i = 1
           /\ PostedSeq[i][1] \in {"setoption", "isready"} =>
                UciokReceived
           /\ PostedSeq[i][1] \in {"ucinewgame", "position", "go"} =>
                engine.readyPromise = "resolved"
           /\ PostedSeq[i][1] = "position" =>
                /\ i = 2 /\ Len(PostedSeq) = 3
                /\ PostedSeq[1] = <<"stop">>
                /\ PostedSeq[3] = <<"isready">>
           /\ PostedSeq[i][1] = "go" =>
                /\ microtasks # <<>>
                /\ Head(microtasks).at = "readyok"
                /\ Head(microtasks).owner # InitializeBody
                /\ calls[Head(microtasks).owner].method = "getBestMove"
      /\ engine.readyPromise # "resolved" /\ engine'.readyPromise = "resolved" =>
           AfterReadyok(InitializeBody)
      /\ \A i \in 1..Len(microtasks') :
           /\ microtasks'[i].at = "readyok"
           /\ \A j \in 1..Len(microtasks) : microtasks[j] # microtasks'[i]
           => LineHandled /\ Head(fromWorker) = <<"readyok">>
    ]_vars

\* C29 witness: after the handshake a request has posted stop, position and
\* isready, and its go is the last command posted
C29_Witness ==
  /\ engine.readyPromise = "resolved"
  /\ toWorker # <<>>
  /\ toWorker[Len(toWorker)] = <<"go", "movetime">>
  /\ \E c \in CallIds : calls[c].method = "getBestMove" /\ calls[c].at = "bestmove"

----------------------------------------------------------------------------
(* Vocabulary of the properties of parseUCIMove.                             *)

FileLetters == <<"a", "b", "c", "d", "e", "f", "g", "h">>
RankDigits == <<"1", "2", "3", "4", "5", "6", "7", "8">>

IsFile(char) == \E n \in 1..8 : FileLetters[n] = char
IsRank(char) == \E n \in 1..8 : RankDigits[n] = char

\* the number 0..7 of a file letter and the number 1..8 of a rank digit
FileNumber(char) == (CHOOSE n \in 1..8 : FileLetters[n] = char) - 1
RankNumber(char) == CHOOSE n \in 1..8 : RankDigits[n] = char

\* the first four characters are file, rank, file, rank
WellFormed(u) ==
  /\ Len(u) >= 4
  /\ IsFile(u[1]) /\ IsRank(u[2]) /\ IsFile(u[3]) /\ IsRank(u[4])

FromSquare(u) == (8 - RankNumber(u[2])) * 8 + FileNumber(u[1])
ToSquare(u) == (8 - RankNumber(u[4])) * 8 + FileNumber(u[3])

\* C24: parseUCIMove maps a string whose first four characters are file
\* a-h, rank 1-8, file a-h, rank 1-8 to from = (8 - fromRank) * 8 + fromFile
\* and to = (8 - toRank) * 8 + toFile, and requestEngineMove calls move()
\* with these squares; every other string is parsed to null, and
\* requestEngineMove then reports the engine error without calling move().
C24_ParseUCIMove ==
  [][ \A c \in DOMAIN calls :
        AnswerArrives(c) /\ calls[c].state = "resolved" /\ calls[c].value # NoValue =>
          IF WellFormed(calls[c].value)
          THEN /\ parseUCIMove(calls[c].value).from = FromSquare(calls[c].value)
               /\ parseUCIMove(calls[c].value).to = ToSquare(calls[c].value)
               /\ IF Verdict(FromSquare(calls[c].value), ToSquare(calls[c].value)) = "null"
                  THEN /\ result'.success
                       /\ lastMove'.from = FromSquare(calls[c].value)
                       /\ lastMove'.to = ToSquare(calls[c].value)
                  ELSE /\ result' = FailResult(Verdict(FromSquare(calls[c].value),
                                                       ToSquare(calls[c].value)))
                       /\ lastMessage' = EngineError
          ELSE /\ parseUCIMove(calls[c].value) = NoParse
               /\ lastMessage' = EngineError
               /\ ~app'.engineThinking
               /\ UNCHANGED <<gameVars, result, step>>
    ]_vars

\* C24 witness: the engine has answered e9e5 to the first move, the answer
\* was reported as an engine error and no move() call followed the human's
C24_Witness ==
  /\ lastMessage = EngineError
  /\ Len(moveHistory) = 1
  /\ result.success
  /\ microtasks = <<>>
  /\ \E c \in DOMAIN calls :
       calls[c].state = "resolved" /\ calls[c].value = <<"e", "9", "e", "5">>

-----------------------------------------------------------------------------
(* Vocabulary of the properties of the selection and the scene *)

\* selection is disabled, in the words of the specification
Locked ==
  \/ app.animationInProgress
  \/ app.singlePlayer /\ (app.engineThinking \/ currentPlayer # humanColor)

\* the step is a call of handleSquareSelection
ClickStep == app'.clicks # app.clicks

Idle(a) == a.selectedSquare = NoSquare /\ a.legalMoves = <<>>

\* C21: a click on a square while an animation is in progress, or in
\* single-player mode while the engine is thinking or it is not the human's
\* turn, changes nothing: no move is made and selectedSquare and legalMoves
\* keep their values
C21_LockedClickChangesNothing ==
  [][ClickStep /\ Locked =>
       /\ UNCHANGED <<gameVars, result, adapterVars, appAwaiters, lastMessage>>
       /\ app' = [app EXCEPT !.clicked = app'.clicked, !.clicks = app'.clicks]]_vars

\* the e7 pawn has been clicked while the engine is thinking about its first
\* move, and nothing is selected
C21_Witness ==
  /\ app.singlePlayer
  /\ app.engineThinking
  /\ ~app.animationInProgress
  /\ step = 1
  /\ app.clicked = Sq("e", 7)
  /\ Idle(app)

\* the clicked square is the destination of one of the current legal moves
IsDestination(squareIndex) ==
  /\ app.selectedSquare # NoSquare
  /\ \E i \in 1..Len(app.legalMoves) : app.legalMoves[i].to = squareIndex

\* C22: with selection enabled, a click on the destination of one of the
\* legalMoves of the selected square makes that move and leaves nothing
\* selected; a click on any other square selects it when it holds a piece of
\* the side to move, and leaves nothing selected otherwise
C22_SelectionStateMachine ==
  [][ClickStep /\ ~Locked =>
       IF IsDestination(app'.clicked)
       THEN /\ Len(moveHistory') = Len(moveHistory) + 1
            /\ lastMove'.from = app.selectedSquare
            /\ lastMove'.to = app'.clicked
            /\ Idle(app')
       ELSE /\ UNCHANGED <<currentPlayer, moveHistory, lastMove, winner>>
            /\ IF board[app'.clicked] # NoPiece
                    /\ board[app'.clicked].color = currentPlayer
               THEN /\ app'.selectedSquare = app'.clicked
                    /\ app'.legalMoves = getLegalMoves(app'.clicked)
               ELSE Idle(app')]_vars

\* without an engine: black's queen's knight has been moved to c6 by a
\* click on it and a click on c6, and nothing is selected
C22_Witness ==
  /\ ~app.singlePlayer
  /\ lastMove.to = app.clicked
  /\ Len(moveHistory) = 4
  /\ Idle(app)
\* no animation is active
AtRest == app.activeAnimations = <<>> /\ ~app.animationInProgress

\* the registry holds the pieces of the board b, each on its square
RegistryShows(b) ==
  /\ DOMAIN app.pieceRegistry = { b[i].id : i \in { j \in Squares : b[j] # NoPiece } }
  /\ \A i \in Squares :
       b[i] # NoPiece =>
         /\ app.pieceRegistry[b[i].id].basePosition = i
         /\ app.pieceRegistry[b[i].id].offset = ZeroOffset

\* C23: whenever no animation is active, after any moves, frames and resets,
\* a reset while animations run included, the renderer's registry holds
\* exactly the ids of the pieces on the board, each with the position of its
\* square as base position and with offset zero
C23_RegistryShowsBoardAtRest == app.started /\ AtRest => RegistryShows(board)
\* the move animations of the App a that have blockers to bring back, the
\* time they have run left aside
Movers(a) ==
  { [a.activeAnimations[i] EXCEPT !.elapsed = 0] :
      i \in { j \in DOMAIN a.activeAnimations :
                a.activeAnimations[j].kind = "move"
                  /\ a.activeAnimations[j].blockers # <<>> } }

\* the blockers of a set of move animations, one for each animation it
\* blocks
BlockersOf(movers) ==
  UNION { { <<m, k>> : k \in DOMAIN m.blockers } : m \in movers }

\* the sidestep animations of a phase, by their place in the queue
Sidesteps(a, phase) ==
  { i \in DOMAIN a.activeAnimations :
      a.activeAnimations[i].kind = "sidestep" /\ a.activeAnimations[i].phase = phase }

\* those among the places that have not run yet and take the blocker from
\* one offset to the other
Fresh(a, places, blocker, from, to) ==
  { i \in places :
      /\ a.activeAnimations[i].pieceId = blocker.id
      /\ a.activeAnimations[i].elapsed = 0
      /\ a.activeAnimations[i].startOffset = from
      /\ a.activeAnimations[i].targetOffset = to }

\* the places the step has added to the queue
Enqueued == (Len(app.activeAnimations) + 1)..Len(app'.activeAnimations)

-----------------------------------------------------------------------------
(* Lookup of a move by its destination, and the en-passant target *)

\* the legal moves the game generates for the piece on a square
LegalOf(index) == LegalMovesFrom(index).legal

\* no two of the moves have the same destination
DifferentDestinations(moves) ==
  Cardinality({ moves[i].to : i \in 1..Len(moves) }) = Len(moves)

\* C35: in every reachable position the legal moves of one square have
\* pairwise different destinations, so that a lookup by destination finds one
\* candidate only, with its castle, en-passant and promotion tags
C35_OneMovePerDestination ==
  \A index \in Squares : board[index] # NoPiece => DifferentDestinations(LegalOf(index))

\* a king that may castle and may step: a tagged candidate is among the
\* moves that are looked up by their destination
C35_Witness ==
  /\ \E index \in Squares :
       /\ board[index] # NoPiece
       /\ \E i \in 1..Len(LegalOf(index)) : LegalOf(index)[i].castle # NoCastle
       /\ Len(LegalOf(index)) >= 3
  /\ winner = "null"

\* the direction a pawn of a colour travels in, as a change of row
Travel(color) == IF color = WHITE THEN -1 ELSE 1

\* C36: where enPassantTarget is set, it is offered to the side to move, the
\* target square is empty and lies on row 2 or 5, and the square behind it
\* for the capturer, on the same file, holds a pawn of the other side, which
\* made the last move
C36_EnPassantTargetShape ==
  enPassantTarget # NoTarget =>
    LET behind == enPassantTarget.index - 8 * Travel(enPassantTarget.captureColor) IN
    /\ enPassantTarget.captureColor = currentPlayer
    /\ enPassantTarget.index \in Squares
    /\ board[enPassantTarget.index] = NoPiece
    /\ enPassantTarget.index \div 8 \in {2, 5}
    /\ behind \in Squares
    /\ board[behind] # NoPiece
    /\ board[behind].type = PAWN
    /\ board[behind].color = Opponent(enPassantTarget.captureColor)
    /\ lastMove.to = behind

\* a double step has just been made and left its target
C36_Witness ==
  /\ enPassantTarget # NoTarget
  /\ moveHistory # <<>>
  /\ result.success
-----------------------------------------------------------------------------
(* The animation flag and the selection between events *)

\* C38: between events animationInProgress is true exactly when
\* activeAnimations is not empty; a frame whose completion callbacks enqueue
\* follow-up animations leaves the flag true
C38_FlagIffAnimations == app.animationInProgress <=> app.activeAnimations # <<>>

\* a frame has retired a knight's move and enqueued the returns of its
\* blockers, which are all that is left in the queue, and the flag is set
C38_Witness ==
  /\ app.animationInProgress
  /\ Sidesteps(app, "back") = DOMAIN app.activeAnimations
  /\ \E i \in DOMAIN app.activeAnimations : app.activeAnimations[i].elapsed = 0
  /\ free = 1

\* C37: between events, when selectedSquare is null legalMoves is empty, and
\* when it is not null the square holds a piece of the side to move and
\* legalMoves is what getLegalMoves(selectedSquare) returns for the board as
\* it is: no change of the board leaves a selection behind
C37_SelectionNeverStale ==
  IF app.selectedSquare = NoSquare
  THEN app.legalMoves = <<>>
  ELSE /\ board[app.selectedSquare] # NoPiece
       /\ board[app.selectedSquare].color = currentPlayer
       /\ app.legalMoves = getLegalMoves(app.selectedSquare)

\* a move has been made and its animation is over, and a piece of the side
\* now to move is selected with its legal moves
C37_Witness ==
  /\ app.selectedSquare # NoSquare
  /\ app.legalMoves # <<>>
  /\ moveHistory # <<>>
  /\ board[lastMove.to] # NoPiece
  /\ AtRest
-----------------------------------------------------------------------------
(* The engine's moves *)

\* the step in which requestEngineMove applies the answer of getBestMove
EngineApplies ==
  /\ microtasks # <<>>
  /\ Head(microtasks).at = "requestEngineMove.afterGetBestMove"
  /\ Len(moveHistory') = Len(moveHistory) + 1

\* the position getBestMove was asked about
AskedFen == calls[Head(microtasks).owner].fen

\* C33: every move applied through a resolved best-move promise moves a
\* piece of engineColor on engineColor's turn and answers a request made
\* for the current position
C33_EngineMovesItsOwnSide ==
  [][EngineApplies =>
       /\ currentPlayer = engineColor
       /\ board[lastMove'.from].color = engineColor
       /\ AskedFen = getFEN(board, currentPlayer)]_vars

\* C34: after requestEngineMove has applied the engine's move successfully,
\* engineThinking is false, so that pieces can be selected on the human's
\* turn once the animations are over
C34_AppliedEngineMoveEndsThinking == [][EngineApplies => ~app'.engineThinking]_vars
-----------------------------------------------------------------------------
(* The blockers of the legal moves *)

\* the id of the piece the legal move m takes, 0 when it takes none
CapturedBy(m) ==
  IF m.enPassant THEN board[m.enPassantCapture].id ELSE board[m.to].id

\* the blockers computeBlockingPieces finds for the legal move m
BlockersOfMove(m) ==
  computeBlockingPieces(board, m.from, m.to, board[m.from].id, CapturedBy(m))

\* the square one step from the origin along the long axis of a knight's
\* jump, and the square next to it on the file or rank of the destination
LongAxisSquares(from, to) ==
  IF Abs((to \div 8) - (from \div 8)) = 2
  THEN { coordToIndex(((from \div 8) + (to \div 8)) \div 2, from % 8),
         coordToIndex(((from \div 8) + (to \div 8)) \div 2, to % 8) }
  ELSE { coordToIndex(from \div 8, ((from % 8) + (to % 8)) \div 2),
         coordToIndex(to \div 8, ((from % 8) + (to % 8)) \div 2) }

BlockerIds(blockers) == { blockers[i].id : i \in DOMAIN blockers }

ExpectedBlockers(m, type, blockers) ==
  /\ CapturedBy(m) = 0 \/ CapturedBy(m) \notin BlockerIds(blockers)
  /\ IF type = KNIGHT
     THEN /\ Len(blockers) <= 2
          /\ Cardinality(BlockerIds(blockers)) = Len(blockers)
          /\ BlockerIds(blockers) =
               { board[index].id : index \in { i \in LongAxisSquares(m.from, m.to) :
                                                 board[i] # NoPiece } }
     ELSE blockers = <<>>

BlockersExpected(moves, type) ==
  \A i \in DOMAIN moves : ExpectedBlockers(moves[i], type, BlockersOfMove(moves[i]))

\* C39: computeBlockingPieces returns no blocker for any legal move of a
\* pawn, bishop, rook, queen or king, castles and en-passant captures
\* included; for a knight's move it returns at most two, the pieces on the
\* two squares one step along the long axis of the jump, and it never
\* returns the captured piece
C39_OnlyKnightsHaveBlockers ==
  \A index \in Squares :
    board[index] # NoPiece => BlockersExpected(LegalOf(index), board[index].type)

TwoBlockers(moves) ==
  \E i \in DOMAIN moves :
    CapturedBy(moves[i]) # 0 /\ Len(BlockersOfMove(moves[i])) = 2

\* the side to move has a knight that can capture by a jump over two pieces
C39_Witness ==
  /\ winner = "null"
  /\ \E index \in Squares :
       /\ board[index] # NoPiece
       /\ board[index].type = KNIGHT
       /\ board[index].color = currentPlayer
       /\ TwoBlockers(LegalOf(index))

\* the step in which a move is made and its animation is scheduled
MoveScheduled ==
  /\ Len(moveHistory') = Len(moveHistory) + 1
  /\ Len(app'.activeAnimations) > Len(app.activeAnimations)

\* the animation of the move that has just been scheduled
ScheduledMove == app'.activeAnimations[Len(app.activeAnimations) + 1]

-----------------------------------------------------------------------------
(* The end of the animations *)

\* no animation stays in the queue past its duration: the frame in which it
\* completes retires it, so that its callback cannot run in a later frame
RetiredOnTime ==
  \A i \in DOMAIN app.activeAnimations :
    app.activeAnimations[i].elapsed < app.activeAnimations[i].duration

\* no piece has two animations of the same kind and phase in the queue
OncePerPiece ==
  \A i, j \in DOMAIN app.activeAnimations :
    /\ app.activeAnimations[i].pieceId = app.activeAnimations[j].pieceId
    /\ app.activeAnimations[i].kind = app.activeAnimations[j].kind
    /\ app.activeAnimations[i].phase = app.activeAnimations[j].phase
    => i = j

-----------------------------------------------------------------------------
(* One worker and one handshake *)

\* the calls made in this step
NewCalls == { c \in CallIds : calls[c].method = "none" /\ calls'[c].method # "none" }

\* call c waits for readyPromise, or runs on since it is resolved
WaitsForReady(c) ==
  IF engine'.readyPromise = "pending"
  THEN \E i \in DOMAIN readyAwaiters' : readyAwaiters'[i] = c
  ELSE \E i \in DOMAIN microtasks' : microtasks'[i] = Continuation(c, "ready")

\* C40: initialize() is idempotent once the worker has been created.
\* However initialize(), setSkillLevel(), newGame() and getBestMove() are
\* called and interleaved, one worker is created and one uci handshake is
\* sent, by the first call, and every call waits on the one readyPromise
C40_InitializeIdempotent ==
  [][ /\ engine.worker => engine'.worker
      /\ ~engine.worker /\ engine'.worker => engine.readyPromise = "null"
      /\ engine.readyPromise # "null" =>
           /\ engine'.readyPromise # "null"
           /\ engine.readyPromise = "resolved" => engine'.readyPromise = "resolved"
           /\ \A command \in Posted : command[1] # "uci"
      /\ engine.readyPromise = "null" /\ NewCalls # {} =>
           /\ PostedSeq = << <<"uci">> >>
           /\ engine'.worker
           /\ engine'.readyPromise = "pending"
      /\ \A c \in NewCalls : WaitsForReady(c)
    ]_vars

\* initialize(), setSkillLevel() and getBestMove() have been called, in some
\* order, and all three have returned
C40_Witness ==
  /\ engine.readyPromise = "resolved"
  /\ \E c1, c2, c3 \in CallIds :
       /\ calls[c1].method = "initialize"
       /\ calls[c2].method = "setSkillLevel"
       /\ calls[c3].method = "getBestMove"
       /\ \A c \in {c1, c2, c3} : calls[c].state = "resolved"
====
